---- MODULE Spec2Model ----
(***************************************************************************)
(* Render consumer of the HLE graphics pipeline (src/src/gui/game.rs):     *)
(* the command dispatcher Game::render_game, the render-target caches, the *)
(* view selector in Game::update and the display pass of Game::render.     *)
(*                                                                         *)
(* Two threads: the producer (emulation) thread pushes HleRenderCommand    *)
(* values on the command queue; the render thread calls update() and       *)
(* render() in turn.  One step of the render thread inside render_game is  *)
(* one iteration of 'cmd_loop (one try_pop and the match arm it selects),  *)
(* so the producer interleaves between any two pops.                       *)
(*                                                                         *)
(* 32-bit quantities (framebuffer addresses, DrawEntry fields) are pairs   *)
(* <<hi, lo>> of 16-bit halves, with the arithmetic of u32 on them.        *)
(***************************************************************************)
EXTENDS Integers, Sequences, FiniteSets, TLC

\* Number of commands the producer pushes in one run.
MaxCmds == 3

\* Number of commands the producer pushes in a run of the frame scenario
\* (a target, data, a Sync, shorter data and a pass that draws with it).
MaxFrameCmds == 5

---------------------------------------------------------------------------
(* u32 arithmetic on <<hi, lo>> pairs *)

W16 == 2^16

U32Of(hi, lo) == <<hi, lo>>

\* a + b on u32: the wrapped sum and whether it overflowed.
AddU32(a, b) ==
    LET lo == a[2] + b[2]
        hi == a[1] + b[1] + (lo \div W16)
    IN  [value |-> <<hi % W16, lo % W16>>, overflow |-> hi >= W16]

\* a - b on u32: the wrapped difference and whether it underflowed.
SubU32(a, b) ==
    LET lo == a[2] - b[2]
        borrow == IF lo < 0 THEN 1 ELSE 0
        hi == a[1] - b[1] - borrow
    IN  [value |-> <<hi % W16, lo % W16>>, overflow |-> hi < 0]

\* Option<T>: None is the empty sequence, Some(x) the one-element sequence.
None == <<>>
Some(x) == <<x>>

\* Option::or(Some(d)).unwrap()
OrUnwrap(opt, d) == IF opt = None THEN d ELSE opt[1]

Last(s) == s[Len(s)]
Front(s) == SubSeq(s, 1, Len(s) - 1)

---------------------------------------------------------------------------
(* Program constants *)

\* rp.color_buffer.or(Some(0xFFFF_FFFF))
SentinelAddress == U32Of(65535, 65535)

\* size_of::<[f32; 16]>() and size_of::<[u64; 24]>()
MatrixBytes == 64
PaddingBytes == 192

\* MvpPacked::size()
MvpPackedSize == MatrixBytes + PaddingBytes

\* Slots of the matrix uniform buffer: `size : (MvpPacked::size() * 1024)`
MatrixSlots == 1024

\* An offset cut to 16 bits.
offset_of_u16(index) == <<0, (index[2] * MvpPackedSize) % W16>>

\* MvpPacked::offset_of(index): (index * size) in usize, truncated to the
\* 32-bit wgpu::DynamicOffset.  index is a u32 pair; the result is a pair.
offset_of(index) ==
    LET lo == index[2] * MvpPackedSize
        hi == index[1] * MvpPackedSize + (lo \div W16)
    IN  <<hi % W16, lo % W16>>

\* A constructor that stores the identity whatever it is given.
MvpPackedNew_blank(mat) == [mvp_matrix |-> "identity", padding |-> 0]

\* MvpPacked::new(mat)
MvpPackedNew(mat) == [mvp_matrix |-> mat, padding |-> 0]

\* bytemuck::cast_slice of a slice of MvpPacked, in blocks of MatrixBytes
\* bytes: the matrix of each element, then its padding.
cast_slice(packed) ==
    LET blocks == MvpPackedSize \div MatrixBytes
    IN  [k \in 1..(Len(packed) * blocks) |->
            IF (k - 1) % blocks = 0
            THEN [matrix |-> packed[((k - 1) \div blocks) + 1].mvp_matrix]
            ELSE [zeros |-> MatrixBytes]]

\* Vertex { position, tex_coords, color } built field by field
VertexNew(vdata) ==
    [position |-> vdata.position, tex_coords |-> vdata.tex_coords,
     color |-> vdata.color]

Identity == "identity"

---------------------------------------------------------------------------
(* The commands of the producer *)

Noop == [op |-> "Noop"]
Sync == [op |-> "Sync"]
DefineColorImage(a) == [op |-> "DefineColorImage", framebuffer_address |-> a]
DefineDepthImage(a) == [op |-> "DefineDepthImage", framebuffer_address |-> a]
Viewport(r) == [op |-> "Viewport", rect |-> r]
VertexData(v) == [op |-> "VertexData", v |-> v]
IndexData(v) == [op |-> "IndexData", v |-> v]
MatrixData(v) == [op |-> "MatrixData", v |-> v]
RenderPass(rp) == [op |-> "RenderPass", rp |-> rp]

DrawEntry(s, n, m) == [start_index |-> s, num_indices |-> n, matrix_index |-> m]

Addr1000 == U32Of(0, 4096)

FramebufferAddresses == {Addr1000, SentinelAddress}

\* The scenario pass of the specification: one draw of three indices.
PassColor ==
    [color_buffer |-> Some(Addr1000), depth_buffer |-> None,
     clear_color |-> Some(<<0, 0, 0, 1>>), clear_depth |-> FALSE,
     draw_list |-> <<DrawEntry(U32Of(0, 0), U32Of(0, 3), U32Of(0, 0))>>]

\* No color buffer named (the sentinel is looked up), depth attached, two draws.
PassDepth ==
    [color_buffer |-> None, depth_buffer |-> Some(Addr1000),
     clear_color |-> None, clear_depth |-> TRUE,
     draw_list |-> <<DrawEntry(U32Of(0, 0), U32Of(0, 3), U32Of(0, 0)),
                     DrawEntry(U32Of(0, 3), U32Of(0, 3), U32Of(0, 1))>>]

\* A draw entry whose start_index + num_indices exceeds u32.
PassWide ==
    [color_buffer |-> Some(Addr1000), depth_buffer |-> None,
     clear_color |-> None, clear_depth |-> FALSE,
     draw_list |-> <<DrawEntry(U32Of(0, 0), U32Of(0, 3), U32Of(0, 1)),
                     DrawEntry(U32Of(65535, 65535), U32Of(0, 3), U32Of(0, 0))>>]

Vertex1 == [position |-> <<0, 0, 0>>, tex_coords |-> <<0, 0>>,
            color |-> <<1, 1, 1, 1>>]

\* What the producer of Spec may push.
DispatchCmds ==
    {DefineColorImage(a) : a \in FramebufferAddresses}
    \cup {DefineDepthImage(Addr1000)}
    \cup {Viewport(r) : r \in {"vp1", "vp2"}}
    \cup {VertexData(<<Vertex1>>), IndexData(<<0, 1, 2>>), MatrixData(<<"m1">>)}
    \cup {RenderPass(PassColor), RenderPass(PassDepth)}
    \cup {Sync, Noop}

\* What the producer of SpecView may push.
ViewCmds ==
    {DefineColorImage(a) : a \in FramebufferAddresses}
    \cup {DefineDepthImage(Addr1000), RenderPass(PassColor), Sync}

---------------------------------------------------------------------------
(* State *)

VARIABLES
    \* hle_command_buffer, and the sequence of everything ever pushed on it
    queue, enqueued,
    \* where the render thread is: "idle" (between update/render calls),
    \* "cmd_loop" (inside render_game), "display" (render_game returned, the
    \* display pass of render() is next), "panicked"
    pc,
    \* fields of Game
    view_mode,
    game_render_textures, game_render_texture_bind_groups,
    game_depth_textures, game_depth_texture_bind_groups,
    raw_render_texture, raw_render_texture_bind_group,
    game_viewport, game_modelview, game_projection,
    vertex_buffer, index_buffer, mvp_buffer,
    game_frame_count, vertex_buffer_writes, index_buffer_writes,
    \* comms.mi_interrupts_tx (None, or Some of a sender whose receiver is
    \* "connected" or "disconnected") and comms.check_interrupts
    mi_interrupts_tx, check_interrupts,
    \* number of GPU textures created so far (the next texture handle)
    next_texture,
    \* the keys of game_render_texture_bind_groups and of
    \* game_depth_texture_bind_groups in the order iter() yields them
    color_iter, depth_iter,
    \* whether the build traps on integer overflow: "unresolved" until the
    \* first overflowing operation, then "on" or "off" for the rest of the run
    overflow_checks,
    \* observation: commands popped, commands whose arm ran to its end, the
    \* GPU submissions and interrupt notifications of render_game in order,
    \* what the last display pass drew (Skipped when it drew nothing)
    popped, applied, events, last_display,
    \* the texels written into the staging texture (layers, latest last);
    \* observation: what the raw decoder did in the last display pass, and
    \* the view-mode cycle the last update() made, until the next render()
    raw_texture_data, raw_pass, last_cycle,
    \* comms.rdram (None, or Some of the emulated memory), and the raw
    \* decode in progress when the display pass is followed step by step
    comms_rdram, decode,
    \* observation: Len(popped), Len(events) and the fields of Game at the
    \* moment the render() call in progress entered render_game
    tick_start, tick_ev0, tick0

queueVars == <<queue, enqueued>>

cacheVars == <<game_render_textures, game_render_texture_bind_groups,
               game_depth_textures, game_depth_texture_bind_groups, next_texture,
               color_iter, depth_iter>>

rawVars == <<raw_render_texture, raw_render_texture_bind_group,
             raw_texture_data>>

frameVars == <<game_viewport, game_modelview, game_projection,
               game_frame_count, vertex_buffer_writes, index_buffer_writes>>

bufferVars == <<vertex_buffer, index_buffer, mvp_buffer>>

commsVars == <<mi_interrupts_tx, check_interrupts>>

tickVars == <<tick_start, tick_ev0, tick0>>

viewObs == <<raw_pass, last_cycle>>

lockVars == <<comms_rdram, decode>>

vars == <<queue, enqueued, pc, view_mode, cacheVars, rawVars, frameVars,
          bufferVars, commsVars, overflow_checks, popped, applied, events,
          last_display, tickVars, viewObs,
                   lockVars>>

\* The fields of Game as one value.
GameState ==
    [view_mode |-> view_mode,
     game_render_textures |-> game_render_textures,
     game_render_texture_bind_groups |-> game_render_texture_bind_groups,
     game_depth_textures |-> game_depth_textures,
     game_depth_texture_bind_groups |-> game_depth_texture_bind_groups,
     raw_render_texture |-> raw_render_texture,
     raw_render_texture_bind_group |-> raw_render_texture_bind_group,
     game_viewport |-> game_viewport,
     game_modelview |-> game_modelview,
     game_projection |-> game_projection,
     vertex_buffer |-> vertex_buffer,
     index_buffer |-> index_buffer,
     mvp_buffer |-> mvp_buffer,
     game_frame_count |-> game_frame_count,
     vertex_buffer_writes |-> vertex_buffer_writes,
     index_buffer_writes |-> index_buffer_writes]

Game == [kind |-> "Game", index |-> 0]
Color(i) == [kind |-> "Color", index |-> i]
Depth(i) == [kind |-> "Depth", index |-> i]

\* An empty HashMap.
EmptyMap == [a \in {} |-> 0]

\* What a display pass drew.
Skipped == [kind |-> "skipped"]
Drawn(pipeline, bind_group) ==
    [kind |-> "drawn", pipeline |-> pipeline, bind_group |-> bind_group]

\* What the tick observation holds while no render() call is in progress.
NoTick == [active |-> FALSE]

\* What a display pass that never reached the raw decoder leaves as its
\* observation; video_buffer is None when vi_origin was not loaded.
\* vi_width and vi_format are None when they were not loaded.
NoRawPass(video_buffer) ==
    [video_buffer |-> video_buffer, vi_width |-> None, vi_format |-> None,
     allocated |-> FALSE, locked |-> FALSE, words_read |-> FALSE,
     wrote |-> FALSE]

\* No cycle was made by the last update().
NoCycle == <<>>

\* No raw decode is in progress and none was followed step by step: no
\* read guard on comms.rdram is held, no pixel was read.
NoDecode ==
    [guard |-> FALSE, registers |-> None, allocated |-> FALSE, next |-> 0,
     chunks |-> 0, mems |-> {}]

\* Game::create: the Self { ... } value, and the comms it was given.
Init ==
    /\ queue = <<>>
    /\ enqueued = <<>>
    /\ pc = "idle"
    /\ view_mode = Game
    /\ game_render_textures = EmptyMap
    /\ game_render_texture_bind_groups = EmptyMap
    /\ game_depth_textures = EmptyMap
    /\ game_depth_texture_bind_groups = EmptyMap
    /\ raw_render_texture = None
    /\ raw_render_texture_bind_group = None
    /\ game_viewport = Noop
    /\ game_modelview = Identity
    /\ game_projection = Identity
    /\ vertex_buffer = <<>>
    /\ index_buffer = <<>>
    /\ mvp_buffer = <<>>
    /\ game_frame_count = 0
    /\ vertex_buffer_writes = 0
    /\ index_buffer_writes = 0
    /\ mi_interrupts_tx \in {None, Some("connected")}
    /\ check_interrupts = 0
    /\ next_texture = 0
    /\ color_iter = <<>>
    /\ depth_iter = <<>>
    /\ overflow_checks = "unresolved"
    /\ popped = <<>>
    /\ applied = <<>>
    /\ events = <<>>
    /\ last_display = Skipped
    /\ raw_texture_data = <<>>
    /\ raw_pass = NoRawPass(None)
    /\ last_cycle = NoCycle
    /\ comms_rdram = None
    /\ decode = NoDecode
    /\ tick_start = 0
    /\ tick_ev0 = 0
    /\ tick0 = NoTick

---------------------------------------------------------------------------
(* Collaborators: the command queue, HashMap, the GPU objects *)

\* HleCommandBuffer: an ordered queue with a non-blocking pop.
push(q, cmd) == Append(q, cmd)

try_pop(q) ==
    IF q = <<>> THEN [cmd |-> None, rest |-> q]
                ELSE [cmd |-> Some(Head(q)), rest |-> Tail(q)]

\* HashMap::contains_key, get, insert, len
contains_key(m, k) == k \in DOMAIN m
get(m, k) == IF k \in DOMAIN m THEN Some(m[k]) ELSE None
\* An insert that forgets the other entries.
insert_alone(m, k, v) == [x \in {k} |-> v]

insert(m, k, v) == [x \in DOMAIN m \cup {k} |-> IF x = k THEN v ELSE m[x]]
len(m) == Cardinality(DOMAIN m)

\* HashMap::iter after the insert of a new key k, `order` being what it
\* yielded before: the map is hashed with the random keys of its
\* RandomState, so the entry of k lies in some bucket before, between or
\* after the buckets of the other entries, which keep their places.
iter_after_insert(order, k) ==
    {SubSeq(order, 1, p) \o <<k>> \o SubSeq(order, p + 1, Len(order)) :
        p \in 0..Len(order)}

\* A write that leaves nothing of the buffer behind the data.
write_buffer_truncates(buffer, data) == data

\* Queue::write_buffer(buffer, 0, data): data replaces the head of the buffer.
write_buffer(buffer, data) ==
    data \o SubSeq(buffer, Len(data) + 1, Len(buffer))

\* appwnd.surface_config() at the time of a call
SurfaceConfigs == {[width |-> 1024, height |-> 768]}

\* Game::create_color_texture: a new texture and a bind group on its view.
create_color_texture(id, width, height, is_copy_dst, is_filtered) ==
    [texture |-> [id |-> id, width |-> width, height |-> height,
                  copy_dst |-> is_copy_dst],
     bind_group |-> [texture |-> id, filtered |-> is_filtered]]

\* Game::create_depth_texture
create_depth_texture(id, width, height) ==
    [texture |-> [id |-> id, width |-> width, height |-> height],
     bind_group |-> [texture |-> id]]

---------------------------------------------------------------------------
(* The producer thread *)

Enqueue(cmd) ==
    /\ pc # "panicked"
    /\ Len(enqueued) < MaxCmds
    /\ queue' = push(queue, cmd)
    /\ enqueued' = Append(enqueued, cmd)
    /\ UNCHANGED <<pc, view_mode, cacheVars, rawVars, frameVars, bufferVars,
                   commsVars, overflow_checks, popped, applied, events,
                   last_display, tickVars, viewObs,
                   lockVars>>

\* The producer pushes a command of a frame scenario, which runs to
\* MaxFrameCmds commands.
EnqueueFrame(cmd) ==
    /\ pc # "panicked"
    /\ Len(enqueued) < MaxFrameCmds
    /\ queue' = push(queue, cmd)
    /\ enqueued' = Append(enqueued, cmd)
    /\ UNCHANGED <<pc, view_mode, cacheVars, rawVars, frameVars, bufferVars,
                   commsVars, overflow_checks, popped, applied, events,
                   last_display, tickVars, viewObs,
                   lockVars>>

\* The receiving end of the interrupt channel goes away.
DropReceiver ==
    /\ pc # "panicked"
    /\ mi_interrupts_tx = Some("connected")
    /\ mi_interrupts_tx' = Some("disconnected")
    /\ UNCHANGED <<queueVars, pc, view_mode, cacheVars, rawVars, frameVars,
                   bufferVars, check_interrupts, overflow_checks, popped,
                   applied, events, last_display, tickVars, viewObs,
                   lockVars>>

\* The producer mutates emulated memory: it takes the write lock of
\* comms.rdram, which it gets only while no read guard is out, stores, and
\* releases the lock.
WriteMemory(mem) ==
    /\ pc # "panicked"
    /\ ~decode.guard
    /\ comms_rdram # Some(mem)
    /\ comms_rdram' = Some(mem)
    /\ UNCHANGED <<queueVars, pc, view_mode, cacheVars, rawVars, frameVars,
                   bufferVars, commsVars, overflow_checks, popped, applied,
                   events, last_display, tickVars, viewObs, decode>>

---------------------------------------------------------------------------
(* Game::render_game: one iteration of 'cmd_loop per step *)

\* render() has been called and render_game is at a try_pop.
InRenderGame == pc \in {"idle", "cmd_loop"}

\* The first try_pop of a render() call records where the tick began.
EnterMarks ==
    IF pc = "idle"
    THEN /\ tick_start' = Len(popped)
         /\ tick_ev0' = Len(events)
         /\ tick0' = [active |-> TRUE, game |-> GameState,
                       check_interrupts |-> check_interrupts]
    ELSE UNCHANGED tickVars

\* The command try_pop returns, when it returns one.
Cmd == try_pop(queue).cmd[1]

\* `while let Some(cmd) = try_pop()` with cmd matching the arm named op
NextIs(op) ==
    /\ InRenderGame
    /\ try_pop(queue).cmd # None
    /\ Cmd.op = op

\* A loop head that pops a second command and drops it.
Take_twice ==
    /\ queue' = try_pop(try_pop(queue).rest).rest
    /\ popped' = Append(popped, Cmd)
    /\ UNCHANGED enqueued
    /\ EnterMarks
    /\ last_cycle' = NoCycle

Take ==
    /\ queue' = try_pop(queue).rest
    /\ popped' = Append(popped, Cmd)
    /\ UNCHANGED enqueued
    /\ EnterMarks
    /\ last_cycle' = NoCycle

\* The arm ran to its end and control goes to `to`.
Completed(to) ==
    /\ applied' = Append(applied, Cmd)
    /\ pc' = to

\* The arm panicked.
Aborted ==
    /\ applied' = applied
    /\ pc' = "panicked"

\* How an operation that overflows settles the build's overflow checking.
Resolve(overflows) ==
    IF overflows /\ overflow_checks = "unresolved" THEN {"on", "off"}
    ELSE {overflow_checks}

\* A DefineColorImage arm that creates a target every time.
ColorImageMissing_always(addr) == TRUE

\* `if !self.game_render_textures.contains_key(&addr)`
ColorImageMissing(addr) == ~contains_key(game_render_textures, addr)

\* `if !self.game_depth_textures.contains_key(&addr)`
DepthImageMissing(addr) == ~contains_key(game_depth_textures, addr)

PopDefineColorImage ==
    /\ NextIs("DefineColorImage")
    /\ Take
    /\ Completed("cmd_loop")
    /\ \E sc \in SurfaceConfigs :
         LET addr == Cmd.framebuffer_address
             made == create_color_texture(next_texture, sc.width, sc.height,
                                          FALSE, FALSE)
         IN  IF ColorImageMissing(addr)
             THEN /\ game_render_textures' =
                        insert(game_render_textures, addr, made.texture)
                  /\ game_render_texture_bind_groups' =
                        insert(game_render_texture_bind_groups, addr, made.bind_group)
                  /\ color_iter' \in iter_after_insert(color_iter, addr)
                  /\ next_texture' = next_texture + 1
             ELSE UNCHANGED <<game_render_textures,
                              game_render_texture_bind_groups, color_iter,
                              next_texture>>
    /\ UNCHANGED <<game_depth_textures, game_depth_texture_bind_groups,
                   depth_iter,
                   view_mode, rawVars, frameVars, bufferVars, commsVars,
                   overflow_checks, events, last_display, raw_pass,
                   lockVars>>

PopDefineDepthImage ==
    /\ NextIs("DefineDepthImage")
    /\ Take
    /\ Completed("cmd_loop")
    /\ \E sc \in SurfaceConfigs :
         LET addr == Cmd.framebuffer_address
             made == create_depth_texture(next_texture, sc.width, sc.height)
         IN  IF DepthImageMissing(addr)
             THEN /\ game_depth_textures' =
                        insert(game_depth_textures, addr, made.texture)
                  /\ game_depth_texture_bind_groups' =
                        insert(game_depth_texture_bind_groups, addr, made.bind_group)
                  /\ depth_iter' \in iter_after_insert(depth_iter, addr)
                  /\ next_texture' = next_texture + 1
             ELSE UNCHANGED <<game_depth_textures,
                              game_depth_texture_bind_groups, depth_iter,
                              next_texture>>
    /\ UNCHANGED <<game_render_textures, game_render_texture_bind_groups,
                   color_iter,
                   view_mode, rawVars, frameVars, bufferVars, commsVars,
                   overflow_checks, events, last_display, raw_pass,
                   lockVars>>

PopViewport ==
    /\ NextIs("Viewport")
    /\ Take
    /\ Completed("cmd_loop")
    /\ game_viewport' = Cmd
    /\ UNCHANGED <<game_modelview, game_projection, game_frame_count,
                   vertex_buffer_writes, index_buffer_writes,
                   view_mode, cacheVars, rawVars, bufferVars, commsVars,
                   overflow_checks, events, last_display, raw_pass,
                   lockVars>>

PopVertexData ==
    /\ NextIs("VertexData")
    /\ Take
    /\ Completed("cmd_loop")
    /\ LET vcopy == [i \in 1..Len(Cmd.v) |-> VertexNew(Cmd.v[i])]
       IN  /\ vertex_buffer' = write_buffer(vertex_buffer, vcopy)
           /\ vertex_buffer_writes' = vertex_buffer_writes + Len(vcopy)
    /\ UNCHANGED <<index_buffer, mvp_buffer,
                   game_viewport, game_modelview, game_projection,
                   game_frame_count, index_buffer_writes,
                   view_mode, cacheVars, rawVars, commsVars,
                   overflow_checks, events, last_display, raw_pass,
                   lockVars>>

PopIndexData ==
    /\ NextIs("IndexData")
    /\ Take
    /\ Completed("cmd_loop")
    /\ index_buffer' = write_buffer(index_buffer, Cmd.v)
    /\ UNCHANGED <<vertex_buffer, mvp_buffer, view_mode, cacheVars, rawVars,
                   frameVars, commsVars, overflow_checks, events, last_display,
                   raw_pass,
                   lockVars>>

PopMatrixData ==
    /\ NextIs("MatrixData")
    /\ Take
    /\ Completed("cmd_loop")
    /\ LET vcopy == [i \in 1..Len(Cmd.v) |-> MvpPackedNew(Cmd.v[i])]
       IN  mvp_buffer' = write_buffer(mvp_buffer, vcopy)
    /\ UNCHANGED <<vertex_buffer, index_buffer, view_mode, cacheVars, rawVars,
                   frameVars, commsVars, overflow_checks, events, last_display,
                   raw_pass,
                   lockVars>>

\* A draw loop that binds slot 0 for every entry.
DrawCall_slot0(dl) ==
    [dynamic_offset |-> offset_of(U32Of(0, 0)),
     first |-> dl.start_index,
     last |-> AddU32(dl.start_index, dl.num_indices).value]

\* One entry of the draw loop: the dynamic offset bound for group 1 and the
\* index range handed to draw_indexed.
DrawCall(dl) ==
    [dynamic_offset |-> offset_of(dl.matrix_index),
     first |-> dl.start_index,
     last |-> AddU32(dl.start_index, dl.num_indices).value]

\* `rp.color_buffer.or(Some(0xFFFF_FFFF)).unwrap()` looked up in the color cache
ColorTarget(rp) ==
    get(game_render_textures, OrUnwrap(rp.color_buffer, SentinelAddress))

\* A depth lookup made only when the pass names a depth buffer.
DepthTarget_named(rp) ==
    IF rp.depth_buffer = None THEN None
    ELSE get(game_depth_textures, rp.depth_buffer[1])

\* `rp.depth_buffer.or(Some(0xFFFF_FFFF)).unwrap()` looked up in the depth cache
DepthTarget(rp) ==
    get(game_depth_textures, OrUnwrap(rp.depth_buffer, SentinelAddress))

\* `load:` of the color attachment
ColorLoad(rp) ==
    IF rp.clear_color # None
    THEN [op |-> "Clear", value |-> rp.clear_color[1]]
    ELSE [op |-> "Load"]

\* A depth attachment that is cleared by every pass.
DepthLoad_clears(rp) == [op |-> "Clear", value |-> "1.0"]

\* `load:` of the depth attachment
DepthLoad(rp) ==
    IF rp.clear_depth THEN [op |-> "Clear", value |-> "1.0"]
    ELSE [op |-> "Load"]

\* A draw loop that also sets the index buffer, to the slice that starts at
\* the entry's first index.
EntryCommands_rebinds(dl) ==
    <<[cmd |-> "set_index_buffer",
       buffer |-> <<"index_buffer", dl.start_index>>, format |-> "Uint16"],
      [cmd |-> "set_bind_group", index |-> 1, bind_group |-> "mvp_bind_group",
       offsets |-> <<DrawCall(dl).dynamic_offset>>],
      [cmd |-> "draw_indexed", first |-> DrawCall(dl).first,
       last |-> DrawCall(dl).last]>>

\* The two commands of one iteration of the draw loop.
EntryCommands(dl) ==
    <<[cmd |-> "set_bind_group", index |-> 1, bind_group |-> "mvp_bind_group",
       offsets |-> <<DrawCall(dl).dynamic_offset>>],
      [cmd |-> "draw_indexed", first |-> DrawCall(dl).first,
       last |-> DrawCall(dl).last]>>

\* `for dl in rp.draw_list`
RECURSIVE LoopCommands(_)
LoopCommands(draw_list) ==
    IF draw_list = <<>> THEN <<>>
    ELSE EntryCommands(Head(draw_list)) \o LoopCommands(Tail(draw_list))

\* What the arm records in its render pass: the state set before the loop,
\* then the commands of the loop, entry by entry.
PassCommands(rp, pipeline) ==
    <<[cmd |-> "set_pipeline", pipeline |-> pipeline],
      [cmd |-> "set_bind_group", index |-> 0,
       bind_group |-> "diffuse_bind_group", offsets |-> <<>>],
      [cmd |-> "set_vertex_buffer", slot |-> 0, buffer |-> "vertex_buffer"],
      [cmd |-> "set_index_buffer", buffer |-> "index_buffer",
       format |-> "Uint16"]>>
    \o LoopCommands(rp.draw_list)

\* The encoder submitted by the RenderPass arm.
Submission(rp) ==
    LET res == DepthTarget(rp)
        pipeline == IF res = None THEN "game_pipeline_no_depth"
                                  ELSE "game_pipeline"
    IN  [t |-> "pass",
         target |-> OrUnwrap(rp.color_buffer, SentinelAddress),
         color_attachment |->
            [view |-> ColorTarget(rp)[1].id, load |-> ColorLoad(rp)],
         depth_stencil_attachment |->
            IF res = None THEN None
            ELSE Some([view |-> res[1].id, load |-> DepthLoad(rp)]),
         pipeline |-> pipeline,
         commands |-> PassCommands(rp, pipeline),
         draws |-> [i \in 1..Len(rp.draw_list) |-> DrawCall(rp.draw_list[i])]]

\* A pass without a color target that ends the loop instead of continuing.
OnMissingColorTarget_break == "display"

\* `continue` of the pass without a color target
OnMissingColorTarget == "cmd_loop"

PopRenderPass ==
    /\ NextIs("RenderPass")
    /\ Take
    /\ LET rp == Cmd.rp
           overflows == \E i \in 1..Len(rp.draw_list) :
                           AddU32(rp.draw_list[i].start_index,
                                  rp.draw_list[i].num_indices).overflow
       IN  IF ColorTarget(rp) = None
           THEN \* warn and `continue`
                /\ Completed(OnMissingColorTarget)
                /\ UNCHANGED <<events, overflow_checks>>
           ELSE \E oc \in Resolve(overflows) :
                  /\ overflow_checks' = oc
                  /\ IF overflows /\ oc = "on"
                     THEN \* `start_index + num_indices` panics; the encoder
                          \* is dropped before queue().submit
                          /\ Aborted
                          /\ events' = events
                     ELSE /\ Completed("cmd_loop")
                          /\ events' = Append(events, Submission(rp))
    /\ UNCHANGED <<view_mode, cacheVars, rawVars, frameVars, bufferVars,
                   commsVars, last_display, raw_pass,
                   lockVars>>

\* A reset that leaves the viewport alone.
reset_render_state_transforms_only ==
    /\ game_viewport' = game_viewport
    /\ game_modelview' = Identity
    /\ game_projection' = Identity

\* Game::reset_render_state
reset_render_state ==
    /\ game_viewport' = Noop
    /\ game_modelview' = Identity
    /\ game_projection' = Identity

\* The notification sent by the Sync arm.
FrameComplete == [t |-> "irq", irq |-> "IMask_DP", mode |-> "SetInterrupt"]

\* A Sync arm without its break.
AfterSync_continue == "cmd_loop"

\* `break 'cmd_loop`
AfterSync == "display"

PopSync ==
    /\ NextIs("Sync")
    /\ Take
    /\ game_frame_count' = game_frame_count + 1
    /\ reset_render_state
    /\ vertex_buffer_writes' = 0
    /\ index_buffer_writes' = 0
    /\ IF mi_interrupts_tx = None
       THEN /\ UNCHANGED <<events, check_interrupts>>
            /\ Completed(AfterSync)
       ELSE IF mi_interrupts_tx = Some("connected")
       THEN /\ events' = Append(events, FrameComplete)
            /\ check_interrupts' = 1
            /\ Completed(AfterSync)
       ELSE \* send returns Err and unwrap panics
            /\ UNCHANGED <<events, check_interrupts>>
            /\ Aborted
    /\ UNCHANGED <<mi_interrupts_tx, view_mode, cacheVars, rawVars,
                   bufferVars, overflow_checks, last_display, raw_pass,
                   lockVars>>

\* The arms of the match that are not the catch-all.
HandledOps ==
    {"DefineColorImage", "DefineDepthImage", "Viewport", "VertexData",
     "IndexData", "MatrixData", "RenderPass", "Sync"}

\* A catch-all arm that ignores the command.
PopUnhandled_ignore ==
    /\ InRenderGame
    /\ try_pop(queue).cmd # None
    /\ Cmd.op \notin HandledOps
    /\ Take
    /\ Completed("cmd_loop")
    /\ UNCHANGED <<view_mode, cacheVars, rawVars, frameVars, bufferVars,
                   commsVars, overflow_checks, events, last_display, raw_pass,
                   lockVars>>

\* `z => unimplemented!(...)`
PopUnhandled ==
    /\ InRenderGame
    /\ try_pop(queue).cmd # None
    /\ Cmd.op \notin HandledOps
    /\ Take
    /\ Aborted
    /\ UNCHANGED <<view_mode, cacheVars, rawVars, frameVars, bufferVars,
                   commsVars, overflow_checks, events, last_display, raw_pass,
                   lockVars>>

\* A pop that waits for the producer: on an empty queue the loop stays at
\* its head.
PopNone_waits ==
    /\ InRenderGame
    /\ try_pop(queue).cmd = None
    /\ pc' = "cmd_loop"
    /\ EnterMarks
    /\ last_cycle' = NoCycle
    /\ UNCHANGED <<queueVars, view_mode, cacheVars, rawVars, frameVars,
                   bufferVars, commsVars, overflow_checks, popped, applied,
                   events, last_display, raw_pass,
                   lockVars>>

\* try_pop returns None: the loop ends and render_game returns.
PopNone ==
    /\ InRenderGame
    /\ try_pop(queue).cmd = None
    /\ pc' = "display"
    /\ EnterMarks
    /\ last_cycle' = NoCycle
    /\ UNCHANGED <<queueVars, view_mode, cacheVars, rawVars, frameVars,
                   bufferVars, commsVars, overflow_checks, popped, applied,
                   events, last_display, raw_pass,
                   lockVars>>

---------------------------------------------------------------------------
(* Game::render after render_game returned: the display pass *)

\* A fallback that looks 320 below the video pointer.
VideoOffset_half == U32Of(0, 320)

\* `video_buffer - 640`
VideoOffset == U32Of(0, 640)

\* A size selection that takes any other width for a 240-line display.
HeightOf_lenient(width) ==
    IF width = 320 THEN Some(240) ELSE IF width = 640 THEN Some(480)
    ELSE Some(240)

\* `if width == 320 { 240 } else if width == 640 { 480 } else { return }`
HeightOf(width) ==
    IF width = 320 THEN Some(240) ELSE IF width = 640 THEN Some(480) ELSE None

\* Values vi_origin and vi_width hold when render() loads them in SpecView:
\* the pointer is unset or names a render target.
ViewOrigins == {U32Of(0, 0), Addr1000}
ViewWidths == {320, 0}

\* comms.rdram holds None or Some of the words of emulated memory.  A
\* memory of `length` words is written as a repeating pattern: word k is
\* words[(k % Len(words)) + 1].
Memory(length, words) == [len |-> length, words |-> words]
word_at(mem, k) == mem.words[(k % Len(mem.words)) + 1]

\* `(video_buffer >> 2) as usize`
StartOf(video_buffer) == video_buffer[1] * (W16 \div 4) + (video_buffer[2] \div 4)

\* `(word >> shift) as u16` for a shift of 0..16
ShrAsU16(word, shift) ==
    ((word[1] % (2^shift)) * (2^(16 - shift))) + (word[2] \div (2^shift))

\* A format 2 arm that takes the even pixel from the lower half.
decode_rgba5551_swapped(word, i) ==
    LET shift == (i % 2) * 16
        pix == ShrAsU16(word, shift)
        r == (pix \div 2048) % 32
        g == (pix \div 64) % 32
        b == (pix \div 2) % 32
        a == pix % 2
    IN  <<(r * 8) % 256, (g * 8) % 256, (b * 8) % 256,
          IF a = 1 THEN 0 ELSE 255>>

\* The body of the `2 =>` arm for pixel i: two pixels to a word, the even
\* one in the upper half.
decode_rgba5551(word, i) ==
    LET shift == 16 - ((i % 2) * 16)
        pix == ShrAsU16(word, shift)
        r == (pix \div 2048) % 32
        g == (pix \div 64) % 32
        b == (pix \div 2) % 32
        a == pix % 2
    IN  <<(r * 8) % 256, (g * 8) % 256, (b * 8) % 256,
          IF a = 1 THEN 0 ELSE 255>>

\* A format 3 arm that stores the bytes of the word lowest first.
decode_rgba8888_le(word) ==
    LET lo == (word[2] - (word[2] % 256)) + 255
    IN  <<lo % 256, lo \div 256, word[1] % 256, word[1] \div 256>>

\* The body of the `3 =>` arm: `(word | 0xff).to_be_bytes()`
decode_rgba8888(word) ==
    LET lo == (word[2] - (word[2] % 256)) + 255
    IN  <<word[1] \div 256, word[1] % 256, lo \div 256, lo % 256>>

\* image_data after the pixel loop over `mem` from word `start`; the bytes
\* of pixel i are image_data(img, i).  Any format but 2 and 3 leaves the
\* loop at its first pixel, and the buffer stays as vec![0u8; ..] made it.
Image(mem, start, width, height, format) ==
    [width |-> width, height |-> height, format |-> format,
     start |-> start, mem |-> mem]

image_data(img, i) ==
    IF img.format = 2
    THEN decode_rgba5551(word_at(img.mem, img.start + (i \div 2)), i)
    ELSE IF img.format = 3
    THEN decode_rgba8888(word_at(img.mem, img.start + i))
    ELSE <<0, 0, 0, 0>>

\* The highest index of rdram the pixel loop reads, -1 when it reads none.
LastWordRead(start, width, height, format) ==
    IF format = 2 THEN start + (((width * height) - 1) \div 2)
    ELSE IF format = 3 THEN start + ((width * height) - 1)
    ELSE -1

\* Queue::write_texture of a width x height image at the origin of a
\* texture: the image replaces what it covers.
write_texture(layers, img) ==
    SelectSeq(layers, LAMBDA l : l.width > img.width \/ l.height > img.height)
      \o <<img>>

\* The texel at (x, y) of the staging texture: Some of its four bytes, or
\* None where nothing was written.
RECURSIVE texel(_, _, _)
texel(layers, x, y) ==
    IF layers = <<>> THEN None
    ELSE LET l == Last(layers)
         IN  IF x < l.width /\ y < l.height
             THEN Some(image_data(l, (y * l.width) + x))
             ELSE texel(Front(layers), x, y)

\* The display pass returns without drawing.
NothingShown ==
    /\ last_display' = Skipped
    /\ pc' = "idle"

\* A cached target shown after a read of shared memory.
ShowCached_decodes(key, video_buffer) ==
    /\ last_display' =
          Drawn("game_render_color_texture_pipeline",
                game_render_texture_bind_groups[key])
    /\ pc' = "idle"
    /\ raw_pass' = [NoRawPass(Some(video_buffer))
                      EXCEPT !.locked = TRUE, !.words_read = TRUE]
    /\ UNCHANGED <<rawVars, next_texture>>

\* ViewMode::Game with a cached color target: the bind group of `key`.
ShowCached(key, video_buffer) ==
    /\ last_display' =
          Drawn("game_render_color_texture_pipeline",
                game_render_texture_bind_groups[key])
    /\ pc' = "idle"
    /\ raw_pass' = NoRawPass(Some(video_buffer))
    /\ UNCHANGED <<rawVars, next_texture>>

\* A check that finds no staging texture on every pass.
RawTextureMissing_always == TRUE

\* `if self.raw_render_texture.is_none()`
RawTextureMissing == raw_render_texture = None

\* ViewMode::Game with no cached target: decode from RDRAM into the staging
\* texture, which is created on first use, and draw that texture.
ShowRaw(video_buffer, vi_width, vi_format, rdram) ==
    LET height == HeightOf(vi_width)
        made == create_color_texture(next_texture, vi_width, height[1], TRUE, FALSE)
        allocates == RawTextureMissing
        texture == IF allocates THEN made.texture ELSE raw_render_texture[1]
        start == StartOf(video_buffer)
        reads == vi_format \in {2, 3}
        out_of_range ==
            LastWordRead(start, vi_width, height[1], vi_format) >= rdram[1].len
        img == Image(rdram[1], start, vi_width, height[1], vi_format)
        seen == [video_buffer |-> Some(video_buffer),
                 vi_width |-> Some(vi_width), vi_format |-> Some(vi_format),
                 allocated |-> allocates, locked |-> TRUE,
                 words_read |-> FALSE, wrote |-> FALSE]
    IN  IF height = None
        THEN \* warn and return
             /\ NothingShown
             /\ raw_pass' = [NoRawPass(Some(video_buffer))
                               EXCEPT !.vi_width = Some(vi_width)]
             /\ UNCHANGED <<rawVars, next_texture>>
        ELSE /\ IF allocates
                THEN /\ raw_render_texture' = Some(made.texture)
                     /\ raw_render_texture_bind_group' = Some(made.bind_group)
                     /\ next_texture' = next_texture + 1
                ELSE UNCHANGED <<raw_render_texture,
                                 raw_render_texture_bind_group, next_texture>>
             /\ IF rdram = None
                THEN \* no memory to decode: the texture is drawn as it is
                     /\ raw_pass' = seen
                     /\ UNCHANGED raw_texture_data
                     /\ last_display' =
                           Drawn("game_render_color_texture_pipeline",
                                 raw_render_texture_bind_group'[1])
                     /\ pc' = "idle"
                ELSE IF reads /\ out_of_range
                THEN \* rdram[..] panics on an index past the end
                     /\ raw_pass' = [seen EXCEPT !.words_read = TRUE]
                     /\ UNCHANGED <<raw_texture_data, last_display>>
                     /\ pc' = "panicked"
                ELSE IF vi_width > texture.width \/ height[1] > texture.height
                THEN \* the copy overruns the texture: wgpu reports a
                     \* validation error, which is fatal
                     /\ raw_pass' = [seen EXCEPT !.words_read = reads]
                     /\ UNCHANGED <<raw_texture_data, last_display>>
                     /\ pc' = "panicked"
                ELSE /\ raw_pass' = [seen EXCEPT !.words_read = reads,
                                                  !.wrote = TRUE]
                     /\ raw_texture_data' = write_texture(raw_texture_data, img)
                     /\ last_display' =
                           Drawn("game_render_color_texture_pipeline",
                                 raw_render_texture_bind_group'[1])
                     /\ pc' = "idle"

DisplayGame(video_buffer, vi_width, vi_format, rdram) ==
    LET shifted == SubU32(video_buffer, VideoOffset)
    IN  IF video_buffer = U32Of(0, 0)
        THEN /\ NothingShown
             /\ raw_pass' = NoRawPass(Some(video_buffer))
             /\ UNCHANGED <<rawVars, next_texture, overflow_checks>>
        ELSE IF contains_key(game_render_texture_bind_groups, video_buffer)
        THEN /\ ShowCached(video_buffer, video_buffer)
             /\ UNCHANGED overflow_checks
        ELSE \E oc \in Resolve(shifted.overflow) :
               /\ overflow_checks' = oc
               /\ IF shifted.overflow /\ oc = "on"
                  THEN /\ pc' = "panicked"
                       /\ raw_pass' = NoRawPass(Some(video_buffer))
                       /\ UNCHANGED <<rawVars, next_texture, last_display>>
                  ELSE IF contains_key(game_render_texture_bind_groups,
                                       shifted.value)
                  THEN ShowCached(shifted.value, video_buffer)
                  ELSE ShowRaw(video_buffer, vi_width, vi_format, rdram)

\* A bounds check that turns the last entry away as well.
DisplayIndexed_strict(bind_groups, buffers, index, pipeline) ==
    /\ IF index + 1 >= Len(buffers)
       THEN last_display' = Skipped
       ELSE last_display' = Drawn(pipeline, bind_groups[buffers[index + 1]])
    /\ pc' = "idle"
    /\ raw_pass' = NoRawPass(None)
    /\ UNCHANGED <<rawVars, next_texture, overflow_checks>>

\* ViewMode::Color(i) / Depth(i): entry i of `buffers`, the map's iteration
\* collected into a Vec.
DisplayIndexed(bind_groups, buffers, index, pipeline) ==
    /\ IF index >= Len(buffers)
       THEN last_display' = Skipped
       ELSE last_display' = Drawn(pipeline, bind_groups[buffers[index + 1]])
    /\ pc' = "idle"
    /\ raw_pass' = NoRawPass(None)
    /\ UNCHANGED <<rawVars, next_texture, overflow_checks>>

Display(video_buffer, vi_width, vi_format, rdram) ==
    /\ pc = "display"
    /\ IF view_mode.kind = "Game"
       THEN DisplayGame(video_buffer, vi_width, vi_format, rdram)
       ELSE IF view_mode.kind = "Color"
       THEN DisplayIndexed(game_render_texture_bind_groups, color_iter,
                           view_mode.index,
                           "game_render_color_texture_pipeline")
       ELSE DisplayIndexed(game_depth_texture_bind_groups, depth_iter,
                           view_mode.index,
                           "game_render_depth_texture_pipeline")
    /\ tick_start' = 0
    /\ tick_ev0' = 0
    /\ tick0' = NoTick
    /\ last_cycle' = NoCycle
    /\ UNCHANGED <<queueVars, view_mode, game_render_textures,
                   game_render_texture_bind_groups, game_depth_textures,
                   game_depth_texture_bind_groups, color_iter, depth_iter,
                   frameVars, bufferVars, commsVars, popped, applied, events,
                   lockVars>>

---------------------------------------------------------------------------
(* The raw decode of the display pass followed step by step: the read of   *)
(* comms.rdram that takes the guard, the pixel loop in stretches between   *)
(* which the producer may run, and the upload that ends the pass.          *)
(* Display takes the same pass as one step.                                *)

\* A guard dropped as soon as the scrutinee of the `if let` is evaluated.
ReadGuardHeld_dropped == FALSE

\* The guard `self.comms.rdram.read()` returns is a temporary of the
\* scrutinee of the `if let`: it is dropped at the end of the `if let`
\* block, after the pixel loop and write_texture.
ReadGuardHeld == TRUE

\* The pixels at which a stretch of the pixel loop may end before the last.
Breakpoints == {1, 2, 38400}

\* Pixels of the frame of a decode: `width*height`
PixelsOf(registers) == registers.vi_width * HeightOf(registers.vi_width)[1]

\* Up to `let format = ...`, the lazy creation of the staging texture and
\* `if let Some(rdram) = self.comms.rdram.read()...` with memory present.
DecodeBegin(video_buffer, vi_width, vi_format) ==
    LET shifted == SubU32(video_buffer, VideoOffset)
        height == HeightOf(vi_width)
        made == create_color_texture(next_texture, vi_width, height[1], TRUE, FALSE)
    IN  /\ pc = "display"
        /\ view_mode.kind = "Game"
        /\ video_buffer # U32Of(0, 0)
        /\ ~contains_key(game_render_texture_bind_groups, video_buffer)
        /\ ~shifted.overflow
        /\ ~contains_key(game_render_texture_bind_groups, shifted.value)
        /\ height # None
        /\ comms_rdram # None
        /\ IF RawTextureMissing
           THEN /\ raw_render_texture' = Some(made.texture)
                /\ raw_render_texture_bind_group' = Some(made.bind_group)
                /\ next_texture' = next_texture + 1
           ELSE UNCHANGED <<raw_render_texture, raw_render_texture_bind_group,
                            next_texture>>
        /\ decode' = [guard |-> ReadGuardHeld,
                      registers |-> Some([vi_origin |-> video_buffer,
                                          vi_width |-> vi_width,
                                          vi_format |-> vi_format]),
                      allocated |-> RawTextureMissing, next |-> 0,
                      chunks |-> 0, mems |-> {}]
        /\ pc' = "decode"
        /\ UNCHANGED <<queueVars, view_mode, game_render_textures,
                       game_render_texture_bind_groups, game_depth_textures,
                       game_depth_texture_bind_groups, color_iter, depth_iter,
                       raw_texture_data, frameVars, bufferVars, commsVars,
                       overflow_checks, popped, applied, events, last_display,
                       tickVars, viewObs, comms_rdram>>

\* The iterations of `for i in 0..(width*height)` from pixel decode.next to
\* pixel upto - 1, each with its read of rdram[..].
DecodeRead(upto) ==
    LET registers == decode.registers[1]
        start == StartOf(registers.vi_origin)
    IN  /\ pc = "decode"
        /\ registers.vi_format \in {2, 3}
        /\ decode.next < upto
        /\ upto \in Breakpoints \cup {PixelsOf(registers)}
        /\ upto <= PixelsOf(registers)
        /\ IF LastWordRead(start, upto, 1, registers.vi_format)
                >= comms_rdram[1].len
           THEN \* rdram[..] panics on an index past the end
                /\ pc' = "panicked"
                /\ decode' = [decode EXCEPT !.guard = FALSE]
           ELSE /\ pc' = "decode"
                /\ decode' = [decode EXCEPT
                                !.next = upto,
                                !.chunks = @ + 1,
                                !.mems = @ \cup {comms_rdram[1]}]
        /\ UNCHANGED <<queueVars, view_mode, cacheVars, rawVars, frameVars,
                       bufferVars, commsVars, overflow_checks, popped, applied,
                       events, last_display, tickVars, viewObs, comms_rdram>>

\* The loop has ended, at its last pixel or at the `break` of a format that
\* is neither 2 nor 3: write_texture, the end of the `if let` block, which
\* drops the guard, and the draw of the staging texture.
DecodeEnd ==
    LET registers == decode.registers[1]
        height == HeightOf(registers.vi_width)[1]
        img == Image(comms_rdram[1], StartOf(registers.vi_origin),
                     registers.vi_width, height, registers.vi_format)
        reads == registers.vi_format \in {2, 3}
        seen == [video_buffer |-> Some(registers.vi_origin),
                 vi_width |-> Some(registers.vi_width),
                 vi_format |-> Some(registers.vi_format),
                 allocated |-> decode.allocated, locked |-> TRUE,
                 words_read |-> reads, wrote |-> FALSE]
    IN  /\ pc = "decode"
        /\ reads => decode.next = PixelsOf(registers)
        /\ decode' = [decode EXCEPT !.guard = FALSE]
        /\ IF \/ registers.vi_width > raw_render_texture[1].width
              \/ height > raw_render_texture[1].height
           THEN \* the copy overruns the texture: wgpu reports a validation
                \* error, which is fatal
                /\ raw_pass' = seen
                /\ UNCHANGED <<raw_texture_data, last_display>>
                /\ pc' = "panicked"
           ELSE /\ raw_pass' = [seen EXCEPT !.wrote = TRUE]
                /\ raw_texture_data' = write_texture(raw_texture_data, img)
                /\ last_display' =
                      Drawn("game_render_color_texture_pipeline",
                            raw_render_texture_bind_group[1])
                /\ pc' = "idle"
        /\ tick_start' = 0
        /\ tick_ev0' = 0
        /\ tick0' = NoTick
        /\ last_cycle' = NoCycle
        /\ UNCHANGED <<queueVars, view_mode, cacheVars, raw_render_texture,
                       raw_render_texture_bind_group, frameVars, bufferVars,
                       commsVars, overflow_checks, popped, applied, events,
                       comms_rdram>>

---------------------------------------------------------------------------
(* Game::update with the control key held *)

\* A selector that compares the length with i instead of i + 1.
cycle_off_by_one(mode, colors, depths) ==
    IF mode.kind = "Game"
    THEN IF colors > 0 THEN Color(0)
         ELSE IF depths > 0 THEN Depth(0)
         ELSE Game
    ELSE IF mode.kind = "Color"
    THEN IF colors > mode.index THEN Color(mode.index + 1)
         ELSE IF depths > 0 THEN Depth(0)
         ELSE Game
    ELSE IF depths > mode.index THEN Depth(mode.index + 1)
         ELSE Game

\* A selector that leaves the color views for Game, passing over the depth
\* views.
cycle_skips_depth(mode, colors, depths) ==
    IF mode.kind = "Game"
    THEN IF colors > 0 THEN Color(0)
         ELSE IF depths > 0 THEN Depth(0)
         ELSE Game
    ELSE IF mode.kind = "Color"
    THEN IF colors > mode.index + 1 THEN Color(mode.index + 1)
         ELSE Game
    ELSE IF depths > mode.index + 1 THEN Depth(mode.index + 1)
         ELSE Game

\* A selector that restarts the depth views instead of returning to Game.
cycle_depth_restarts(mode, colors, depths) ==
    IF mode.kind = "Game"
    THEN IF colors > 0 THEN Color(0)
         ELSE IF depths > 0 THEN Depth(0)
         ELSE Game
    ELSE IF mode.kind = "Color"
    THEN IF colors > mode.index + 1 THEN Color(mode.index + 1)
         ELSE IF depths > 0 THEN Depth(0)
         ELSE Game
    ELSE IF depths > mode.index + 1 THEN Depth(mode.index + 1)
         ELSE Depth(0)

\* The successor of the view mode on Ctrl+V.
cycle(mode, colors, depths) ==
    IF mode.kind = "Game"
    THEN IF colors > 0 THEN Color(0)
         ELSE IF depths > 0 THEN Depth(0)
         ELSE Game
    ELSE IF mode.kind = "Color"
    THEN IF colors > mode.index + 1 THEN Color(mode.index + 1)
         ELSE IF depths > 0 THEN Depth(0)
         ELSE Game
    ELSE IF depths > mode.index + 1 THEN Depth(mode.index + 1)
         ELSE Game

\* f_pressed: one of F5..F10 is pressed; v_pressed: V is pressed.
Update(f_pressed, v_pressed) ==
    /\ pc = "idle"
    /\ IF f_pressed /\ mi_interrupts_tx = Some("disconnected")
       THEN \* mi.send(...).unwrap() panics
            /\ pc' = "panicked"
            /\ last_cycle' = NoCycle
            /\ UNCHANGED view_mode
       ELSE /\ pc' = "idle"
            /\ view_mode' =
                 IF v_pressed
                 THEN cycle(view_mode, len(game_render_texture_bind_groups),
                            len(game_depth_texture_bind_groups))
                 ELSE view_mode
            /\ last_cycle' =
                 IF v_pressed
                 THEN Some([from |-> view_mode,
                            colors |-> len(game_render_texture_bind_groups),
                            depths |-> len(game_depth_texture_bind_groups)])
                 ELSE NoCycle
    /\ UNCHANGED <<queueVars, cacheVars, rawVars, frameVars, bufferVars,
                   commsVars, overflow_checks, popped, applied, events,
                   last_display, tickVars, raw_pass,
                   lockVars>>

---------------------------------------------------------------------------
(* Specifications *)

\* The dispatcher against a producer of every command kind, before the
\* emulated program has set VI_ORIGIN.
Next ==
    \/ \E cmd \in DispatchCmds : Enqueue(cmd)
    \/ DropReceiver
    \/ PopDefineColorImage
    \/ PopDefineDepthImage
    \/ PopViewport
    \/ PopVertexData
    \/ PopIndexData
    \/ PopMatrixData
    \/ PopRenderPass
    \/ PopSync
    \/ PopUnhandled
    \/ PopNone
    \/ Display(U32Of(0, 0), 0, 0, None)

Spec == Init /\ [][Next]_vars

\* Game::create without an interrupt channel.
InitRaw == Init /\ mi_interrupts_tx = None

\* The view selector and the display pass against a producer of render
\* targets, with any video registers.
NextView ==
    \/ \E cmd \in ViewCmds : Enqueue(cmd)
    \/ PopDefineColorImage
    \/ PopDefineDepthImage
    \/ PopRenderPass
    \/ PopSync
    \/ PopNone
    \/ \E v \in ViewOrigins, w \in ViewWidths : Display(v, w, 2, None)
    \/ \E f \in BOOLEAN, v \in BOOLEAN : Update(f, v)

SpecView == InitRaw /\ [][NextView]_vars

\* The display pass with the video registers and shared memory the
\* emulated program may have set, against a producer of render targets.
Addr1280 == U32Of(0, 4736)
RawCmds ==
    {DefineColorImage(Addr1000), DefineColorImage(Addr1280),
     DefineDepthImage(Addr1000)}

\* Shared memory of 4 MiB whose word at address 0x1000 is 0xFFFF_0000.
RawMemory ==
    Memory(1048576, <<U32Of(4660, 22136), U32Of(65535, 0), U32Of(33825, 1)>>)

\* What vi_origin, vi_width, vi_format and rdram hold at a display pass.
Registers(v, w, f, m) ==
    [vi_origin |-> v, vi_width |-> w, vi_format |-> f, rdram |-> m]

RawRegisters ==
    {Registers(U32Of(0, 0), 320, 2, Some(RawMemory)),
     Registers(Addr1000, 320, 2, Some(RawMemory)),
     Registers(Addr1000, 640, 2, Some(RawMemory)),
     Registers(Addr1000, 0, 2, Some(RawMemory)),
     Registers(Addr1000, 320, 0, Some(RawMemory)),
     Registers(Addr1000, 320, 3, Some(RawMemory)),
     Registers(Addr1000, 320, 2, None),
     Registers(Addr1280, 320, 2, Some(RawMemory))}

NextRaw ==
    \/ \E cmd \in RawCmds : Enqueue(cmd)
    \/ PopDefineColorImage
    \/ PopDefineDepthImage
    \/ PopNone
    \/ \E r \in RawRegisters :
          Display(r.vi_origin, r.vi_width, r.vi_format, r.rdram)
    \/ Update(FALSE, TRUE)

SpecRaw == InitRaw /\ [][NextRaw]_vars

\* The matrix table against a producer that defines a color target, fills
\* the table and draws with one matrix index, inside the table or not.
PassAt(m) ==
    [color_buffer |-> Some(Addr1000), depth_buffer |-> None,
     clear_color |-> None, clear_depth |-> FALSE,
     draw_list |-> <<DrawEntry(U32Of(0, 0), U32Of(0, 3), m)>>]

MatrixLists ==
    {<<"m1">>, <<"m2", "m1">>, <<"m3", "m2", "m1">>, <<"m1", "m1", "m3">>}

\* Every index of the table, the first index past it, and 2^24.
MatrixIndices == {U32Of(0, i) : i \in 0..MatrixSlots} \cup {U32Of(256, 0)}

\* What the producer may push as its command number n + 1.
MatrixCmds(n) ==
    IF n = 0 THEN {DefineColorImage(Addr1000)}
    ELSE {MatrixData(ms) : ms \in MatrixLists}
         \cup (IF n = 2 THEN {RenderPass(PassAt(m)) : m \in MatrixIndices}
                         ELSE {})

NextMatrix ==
    \/ \E cmd \in MatrixCmds(Len(enqueued)) : Enqueue(cmd)
    \/ PopDefineColorImage
    \/ PopMatrixData
    \/ PopRenderPass
    \/ PopNone
    \/ Display(U32Of(0, 0), 0, 0, None)

SpecMatrix == InitRaw /\ [][NextMatrix]_vars

\* The RenderPass arm against a producer of color and depth targets, index
\* data and passes that name, or do not name, a depth buffer and the clears.
PassBoth ==
    [color_buffer |-> Some(Addr1000), depth_buffer |-> Some(Addr1000),
     clear_color |-> None, clear_depth |-> TRUE,
     draw_list |-> <<DrawEntry(U32Of(0, 0), U32Of(0, 3), U32Of(0, 1)),
                     DrawEntry(U32Of(0, 3), U32Of(0, 3), U32Of(0, 0))>>]

PassKeep ==
    [color_buffer |-> Some(Addr1000), depth_buffer |-> Some(Addr1000),
     clear_color |-> None, clear_depth |-> FALSE,
     draw_list |-> <<DrawEntry(U32Of(0, 0), U32Of(0, 3), U32Of(0, 2))>>]

PassCmds ==
    {DefineColorImage(Addr1000), DefineDepthImage(Addr1000),
     DefineDepthImage(SentinelAddress), IndexData(<<0, 1, 2>>),
     RenderPass(PassColor), RenderPass(PassWide), RenderPass(PassBoth),
     RenderPass(PassKeep)}

NextPass ==
    \/ \E cmd \in PassCmds : Enqueue(cmd)
    \/ PopDefineColorImage
    \/ PopDefineDepthImage
    \/ PopIndexData
    \/ PopRenderPass
    \/ PopNone
    \/ Display(U32Of(0, 0), 0, 0, None)

SpecPass == InitRaw /\ [][NextPass]_vars

\* The dispatcher as a running thread: once render_game has been entered,
\* the iteration of 'cmd_loop at hand is eventually executed.  The producer
\* pushes what it likes, a Sync or not, and stops when it likes.
LiveCmds ==
    {DefineColorImage(Addr1000), RenderPass(PassColor), RenderPass(PassWide),
     Sync, Noop}

LoopIteration ==
    /\ pc = "cmd_loop"
    /\ \/ PopDefineColorImage
       \/ PopRenderPass
       \/ PopSync
       \/ PopUnhandled
       \/ PopNone

NextLive ==
    \/ \E cmd \in LiveCmds : Enqueue(cmd)
    \/ PopDefineColorImage
    \/ PopRenderPass
    \/ PopSync
    \/ PopUnhandled
    \/ PopNone
    \/ Display(U32Of(0, 0), 0, 0, None)

SpecLive == InitRaw /\ [][NextLive]_vars /\ WF_vars(LoopIteration)

\* The raw decode against a producer that rewrites emulated memory: the
\* video registers name 0x1000, where no target is cached.
RawMemory2 ==
    Memory(1048576, <<U32Of(0, 1), U32Of(63488, 1984), U32Of(62, 65534)>>)

LockRegisters ==
    {Registers(Addr1000, w, f, None) : w \in {320, 640}, f \in {0, 2, 3}}

NextLock ==
    \/ \E mem \in {RawMemory, RawMemory2} : WriteMemory(mem)
    \/ PopNone
    \/ \E r \in LockRegisters : DecodeBegin(r.vi_origin, r.vi_width, r.vi_format)
    \/ \E upto \in Breakpoints \cup {76800, 307200} : DecodeRead(upto)
    \/ DecodeEnd
    \/ \E r \in LockRegisters :
          Display(r.vi_origin, r.vi_width, r.vi_format, comms_rdram)

SpecLock == InitRaw /\ [][NextLock]_vars

\* The display pass in Game view with video pointers at the edges of the
\* address space: below 640, where `video_buffer - 640` leaves u32, and so
\* near the end of the 4 MiB of shared memory that the frame does not fit.
Addr639 == U32Of(0, 639)
Addr4 == U32Of(0, 4)
AddrLastWord == U32Of(63, 65532)
Addr300000 == U32Of(48, 0)

EdgeCmds == {DefineColorImage(SentinelAddress), DefineColorImage(Addr1000)}

EdgeRegisters ==
    {Registers(v, 320, 2, None) :
        v \in {U32Of(0, 0), Addr4, Addr639, Addr1000, AddrLastWord}}
    \cup {Registers(Addr300000, 640, 3, None)}

NextEdge ==
    \/ \E cmd \in EdgeCmds : Enqueue(cmd)
    \/ WriteMemory(RawMemory)
    \/ PopDefineColorImage
    \/ PopNone
    \/ \E r \in EdgeRegisters :
          Display(r.vi_origin, r.vi_width, r.vi_format, comms_rdram)

SpecEdge == InitRaw /\ [][NextEdge]_vars

\* The buffer writes against a producer that defines a color target, then
\* pushes vertex, index and matrix data of two lengths and Syncs, and from
\* its fifth command on draws with matrix slot 1.
Vertex2 == [position |-> <<1, 0, 0>>, tex_coords |-> <<1, 0>>,
            color |-> <<0, 0, 0, 1>>]

BufferData ==
    {VertexData(<<Vertex1, Vertex2>>), VertexData(<<Vertex2>>),
     IndexData(<<0, 1, 2>>), IndexData(<<2>>),
     MatrixData(<<"m3", "m2", "m1">>), MatrixData(<<"m1">>)}

\* What the producer may push as its command number n + 1.
BufferCmds(n) ==
    IF n = 0 THEN {DefineColorImage(Addr1000)}
    ELSE IF n < 4 THEN BufferData \cup {Sync}
    ELSE {RenderPass(PassAt(U32Of(0, 1)))}

NextBuffers ==
    \/ \E cmd \in BufferCmds(Len(enqueued)) : EnqueueFrame(cmd)
    \/ PopDefineColorImage
    \/ PopVertexData
    \/ PopIndexData
    \/ PopMatrixData
    \/ PopRenderPass
    \/ PopSync
    \/ PopNone
    \/ Display(U32Of(0, 0), 0, 0, None)

SpecBuffers == InitRaw /\ [][NextBuffers]_vars

---------------------------------------------------------------------------
(* Observations used by the properties *)

\* A render() call is in progress, or ended in a panic inside render_game.
InTick == tick0.active

\* The commands popped, and the events emitted, by the tick in progress.
TickPopped == SubSeq(popped, tick_start + 1, Len(popped))
TickEvents == SubSeq(events, tick_ev0 + 1, Len(events))

IsSync(cmd) == cmd.op = "Sync"

\* The tick in progress has popped a Sync as its latest command.
TickEndedBySync == InTick /\ TickPopped # <<>> /\ IsSync(Last(TickPopped))

\* A render-thread step that pops a command.
PopStep == popped' # popped

---------------------------------------------------------------------------
(* C1: a tick pops in queue order and stops at the first Sync or at an    *)
(* empty queue, deferring what is queued behind the Sync; a tick that      *)
(* finds the queue empty at its first pop changes nothing.                 *)

\* Within a tick nothing is popped after a Sync; when the tick has ended on
\* a Sync, what the producer pushed behind it is the queue; a tick that
\* returned without popping left the fields of Game, the interrupt flag and
\* the event log as they were.
C1_TickState ==
    InTick =>
      /\ \A i \in 1..(Len(TickPopped) - 1) : ~IsSync(TickPopped[i])
      /\ TickEndedBySync =>
            queue = SubSeq(enqueued, Len(popped) + 1, Len(enqueued))
      /\ (pc = "display" /\ TickPopped = <<>>) =>
            /\ GameState = tick0.game
            /\ check_interrupts = tick0.check_interrupts
            /\ TickEvents = <<>>
            /\ applied = popped

\* A pop takes the head of the queue, and render_game returns only from a
\* try_pop that found the queue empty or from a Sync.
C1_TickStep ==
    /\ PopStep => popped' = Append(popped, Head(queue)) /\ queue' = Tail(queue)
    /\ (InRenderGame /\ pc' = "display") =>
          \/ queue = <<>> /\ UNCHANGED <<queue, popped>>
          \/ queue # <<>> /\ IsSync(Head(queue)) /\ queue' = Tail(queue)

C1_DispatcherTick == []C1_TickState /\ [][C1_TickStep]_vars

\* A tick that popped two commands ended on a Sync with a command deferred
\* behind it.
C1_Witness ==
    /\ pc = "display"
    /\ TickEndedBySync
    /\ Len(TickPopped) = 2
    /\ queue # <<>>

---------------------------------------------------------------------------
(* C2: over all ticks the dispatcher consumes the producer's sequence in   *)
(* order, without loss or duplication: what was pushed is what was popped  *)
(* followed by what is still queued, and what was applied is what was      *)
(* popped (less the command a panic stopped at).                           *)

C2_AppliedIsPrefixOfEnqueued ==
    /\ enqueued = popped \o queue
    /\ \/ applied = popped
       \/ pc = "panicked" /\ popped # <<>> /\ applied = Front(popped)
    /\ InTick /\ TickPopped # <<>> => TickPopped[1] = enqueued[tick_start + 1]

\* A second tick has applied first the command deferred behind a Sync,
\* while the producer has pushed another one.
C2_Witness ==
    /\ InTick
    /\ tick_start > 0
    /\ IsSync(popped[tick_start])
    /\ TickPopped # <<>>
    /\ applied = popped
    /\ queue # <<>>

---------------------------------------------------------------------------
(* C3: DefineColorImage and DefineDepthImage are idempotent per address:   *)
(* after a Define the address has its one entry (a texture and the bind    *)
(* group on it), and a Define for a cached address changes no entry of     *)
(* either cache and creates no texture.                                    *)

\* The two maps of a cache hold the same addresses, and each bind group is
\* on the texture cached at its address.
Paired(textures, bind_groups) ==
    /\ DOMAIN textures = DOMAIN bind_groups
    /\ \A a \in DOMAIN textures : bind_groups[a].texture = textures[a].id

C3_CacheState ==
    /\ Paired(game_render_textures, game_render_texture_bind_groups)
    /\ Paired(game_depth_textures, game_depth_texture_bind_groups)

C3_DefineStep ==
    /\ (PopStep /\ Head(queue).op = "DefineColorImage") =>
          /\ Head(queue).framebuffer_address \in DOMAIN game_render_textures'
          /\ Head(queue).framebuffer_address \in DOMAIN game_render_textures
                => UNCHANGED cacheVars
    /\ (PopStep /\ Head(queue).op = "DefineDepthImage") =>
          /\ Head(queue).framebuffer_address \in DOMAIN game_depth_textures'
          /\ Head(queue).framebuffer_address \in DOMAIN game_depth_textures
                => UNCHANGED cacheVars

C3_DefineIdempotent == []C3_CacheState /\ [][C3_DefineStep]_vars

\* The same DefineColorImage has been applied twice, with another target
\* cached as well.
C3_Witness ==
    /\ \E i, j \in 1..Len(applied) :
          /\ i < j
          /\ applied[i].op = "DefineColorImage"
          /\ applied[i] = applied[j]
    /\ len(game_render_textures) + len(game_depth_textures) = 2

---------------------------------------------------------------------------
(* C4: a RenderPass whose color buffer (the sentinel when it names none)   *)
(* is not in the color cache submits nothing, changes no field of Game and *)
(* no interrupt state, does not panic, and leaves the loop at its next     *)
(* try_pop.                                                                *)

\* `color_buffer`, or 0xFFFF_FFFF when the pass names none.
ColorKey(rp) ==
    IF rp.color_buffer = None THEN U32Of(65535, 65535) ELSE rp.color_buffer[1]

C4_SkipStep ==
    (/\ PopStep
     /\ Head(queue).op = "RenderPass"
     /\ ColorKey(Head(queue).rp) \notin DOMAIN game_render_textures)
    => /\ events' = events
       /\ UNCHANGED <<view_mode, cacheVars, rawVars, frameVars, bufferVars,
                      commsVars, last_display>>
       /\ applied' = Append(applied, Head(queue))
       /\ pc' = "cmd_loop"

C4_MissingTargetSkipped == [][C4_SkipStep]_vars

\* A pass with no target was skipped and the same tick applied the command
\* behind it.
C4_Witness ==
    /\ InTick
    /\ applied = popped
    /\ SentinelAddress \notin DOMAIN game_render_textures
    /\ \E i \in 1..(Len(TickPopped) - 1) : TickPopped[i] = RenderPass(PassDepth)
    /\ events = <<>>

---------------------------------------------------------------------------
(* C5: a Sync processed while the interrupt channel is absent or closed    *)
(* resets the frame state and ends the tick normally.  Stated as: once a   *)
(* Sync is the latest command popped and the channel is not connected, the *)
(* render thread has not panicked, the Sync counts as applied and the      *)
(* viewport is reset.                                                      *)

C5_SyncWithoutChannel ==
    (/\ popped # <<>>
     /\ IsSync(Last(popped))
     /\ mi_interrupts_tx # Some("connected"))
    => /\ pc # "panicked"
       /\ applied = popped
       /\ game_viewport = Noop

---------------------------------------------------------------------------
(* C6: the passes a tick submits are, in order, those of the RenderPass    *)
(* commands it applied whose color target was cached, each with one draw   *)
(* per entry of its draw list at that entry's matrix offset; a             *)
(* notification is sent only by a completed Sync, after every submission   *)
(* of the tick, exactly one when the channel is present and none when it   *)
(* is absent, and render_game has then returned.                           *)

DefinedBefore(a, i) ==
    \E j \in 1..(i - 1) : popped[j] = DefineColorImage(a)

\* Positions in `applied` of the passes the tick in progress executed.
TickExecuted ==
    SelectSeq([k \in 1..(Len(applied) - tick_start) |-> tick_start + k],
              LAMBDA i : /\ applied[i].op = "RenderPass"
                         /\ DefinedBefore(ColorKey(applied[i].rp), i))

TickPasses == SelectSeq(TickEvents, LAMBDA e : e.t = "pass")
TickNotifications == SelectSeq(TickEvents, LAMBDA e : e.t = "irq")

PassMatches(e, rp) ==
    /\ e.target = ColorKey(rp)
    /\ Len(e.draws) = Len(rp.draw_list)
    /\ \A n \in 1..Len(rp.draw_list) :
          /\ e.draws[n].dynamic_offset = offset_of(rp.draw_list[n].matrix_index)
          /\ e.draws[n].first = rp.draw_list[n].start_index

C6_FrameDrawsThenNotifies ==
    InTick =>
      /\ Len(TickPasses) = Len(TickExecuted)
      /\ \A k \in 1..Len(TickExecuted) :
            PassMatches(TickPasses[k], applied[TickExecuted[k]].rp)
      /\ Len(TickNotifications) <= 1
      /\ Len(TickNotifications) = 1 =>
            /\ Last(TickEvents).t = "irq"
            /\ TickEndedBySync
            /\ applied = popped
            /\ pc = "display"
      /\ TickEndedBySync =>
            Len(TickNotifications) =
               IF applied = popped /\ mi_interrupts_tx # None THEN 1 ELSE 0

\* The scenario: DefineColorImage{0x1000}, RenderPass on it, Sync, in one
\* tick, with the notification after the one draw.
C6_Witness ==
    /\ pc = "display"
    /\ TickPopped = <<DefineColorImage(Addr1000), RenderPass(PassColor), Sync>>
    /\ Len(TickEvents) = 2
    /\ TickEvents[1].t = "pass"
    /\ Len(TickEvents[1].draws) = 1
    /\ TickEvents[2].t = "irq"

\* The claim as first stated: every tick that ends on a Sync has sent
\* exactly one notification.
C6_OneNotificationPerSync ==
    (pc = "display" /\ TickEndedBySync) => Len(TickNotifications) = 1

---------------------------------------------------------------------------
(* C7: a popped command outside the eight handled kinds (Noop included)    *)
(* stops the dispatcher for good: it is the last command ever popped, it   *)
(* is not applied, nothing pushed behind it is applied, and the render     *)
(* thread has panicked.                                                    *)

Unhandled(cmd) ==
    cmd.op \notin {"DefineColorImage", "DefineDepthImage", "Viewport",
                   "VertexData", "IndexData", "MatrixData", "RenderPass",
                   "Sync"}

C7_UnhandledIsFatal ==
    \A i \in 1..Len(enqueued) :
        Unhandled(enqueued[i]) =>
            /\ Len(applied) < i
            /\ Len(popped) <= i
            /\ Len(popped) = i => pc = "panicked"

\* A Noop was popped after another command, with a command queued behind it.
C7_Witness ==
    /\ pc = "panicked"
    /\ Len(popped) = 2
    /\ Last(popped) = Noop
    /\ applied = Front(popped)
    /\ queue # <<>>

---------------------------------------------------------------------------
(* C8: the recorded viewport is the latest Viewport command popped since   *)
(* the latest Sync popped, Noop when there is none; right after a Sync the *)
(* model-view and projection transforms are the identity.                  *)

RECURSIVE ViewportSinceSync(_)
ViewportSinceSync(s) ==
    IF s = <<>> THEN [op |-> "Noop"]
    ELSE IF IsSync(Last(s)) THEN [op |-> "Noop"]
    ELSE IF Last(s).op = "Viewport" THEN Last(s)
    ELSE ViewportSinceSync(Front(s))

C8_ViewportIsLatestSinceSync ==
    /\ game_viewport = ViewportSinceSync(popped)
    /\ (popped # <<>> /\ IsSync(Last(popped))) =>
          /\ game_modelview = "identity"
          /\ game_projection = "identity"

\* A viewport, a Sync that reset it, and a second viewport now recorded.
C8_Witness ==
    /\ Len(popped) = 3
    /\ popped[1] = Viewport("vp1")
    /\ IsSync(popped[2])
    /\ popped[3] = Viewport("vp2")
    /\ game_viewport = Viewport("vp2")

---------------------------------------------------------------------------
(* C9: over ticks, view cycles and display passes no cache entry is        *)
(* removed or replaced, and an entry appears only in the step that pops a  *)
(* DefineColorImage (color cache) or DefineDepthImage (depth cache) for an *)
(* address not cached before.                                              *)

Kept(m, n) == \A a \in DOMAIN m : a \in DOMAIN n /\ n[a] = m[a]

AddedBy(m, n, op) ==
    \A a \in (DOMAIN n) \ (DOMAIN m) :
        /\ PopStep
        /\ Head(queue) = [op |-> op, framebuffer_address |-> a]

C9_CacheStep ==
    /\ Kept(game_render_textures, game_render_textures')
    /\ Kept(game_render_texture_bind_groups, game_render_texture_bind_groups')
    /\ Kept(game_depth_textures, game_depth_textures')
    /\ Kept(game_depth_texture_bind_groups, game_depth_texture_bind_groups')
    /\ AddedBy(game_render_textures, game_render_textures', "DefineColorImage")
    /\ AddedBy(game_render_texture_bind_groups, game_render_texture_bind_groups',
               "DefineColorImage")
    /\ AddedBy(game_depth_textures, game_depth_textures', "DefineDepthImage")
    /\ AddedBy(game_depth_texture_bind_groups, game_depth_texture_bind_groups',
               "DefineDepthImage")

C9_CachesOnlyGrow == [][C9_CacheStep]_vars

\* Two color targets and a depth target are cached, the staging texture
\* exists, and a diagnostic view has been displayed.
C9_Witness ==
    /\ len(game_render_textures) = 2
    /\ len(game_depth_textures) = 1
    /\ raw_render_texture # None
    /\ view_mode.kind # "Game"
    /\ last_display.kind = "drawn"

---------------------------------------------------------------------------
(* C10: a view cycle yields Game, or Color(i) with i below the number of   *)
(* color entries, or Depth(j) with j below the number of depth entries.    *)

ValidMode(mode, colors, depths) ==
    \/ mode.kind = "Game"
    \/ mode.kind = "Color" /\ mode.index >= 0 /\ mode.index < colors
    \/ mode.kind = "Depth" /\ mode.index >= 0 /\ mode.index < depths

C10_CycleStep ==
    view_mode' # view_mode =>
        ValidMode(view_mode', Cardinality(DOMAIN game_render_texture_bind_groups'),
                  Cardinality(DOMAIN game_depth_texture_bind_groups'))

C10_CycleIsIndexSafe == [][C10_CycleStep]_vars

\* The cycle left the last of two color entries for the first depth entry.
C10_Witness ==
    /\ view_mode = Depth(0)
    /\ len(game_render_texture_bind_groups) = 2
    /\ len(game_depth_texture_bind_groups) = 1

---------------------------------------------------------------------------
(* C11: a cycle takes the view mode to the successor the transition table  *)
(* gives for the cache sizes at the moment of the cycle: Game to Color(0), *)
(* else Depth(0), else Game; Color(i) to Color(i+1) when that index        *)
(* exists, else Depth(0), else Game; Depth(i) to Depth(i+1) when that      *)
(* index exists, else Game.                                                *)

Successor(mode, c, d) ==
    CASE mode.kind = "Game" ->
            IF c > 0 THEN Color(0) ELSE IF d > 0 THEN Depth(0) ELSE Game
      [] mode.kind = "Color" ->
            IF mode.index + 1 < c THEN Color(mode.index + 1)
            ELSE IF d > 0 THEN Depth(0) ELSE Game
      [] mode.kind = "Depth" ->
            IF mode.index + 1 < d THEN Depth(mode.index + 1) ELSE Game

\* A step in which update() made a cycle.
CycleStep == last_cycle' # NoCycle /\ last_cycle' # last_cycle

C11_CycleState ==
    last_cycle # NoCycle =>
        view_mode = Successor(last_cycle[1].from, last_cycle[1].colors,
                              last_cycle[1].depths)

C11_CycleStep ==
    CycleStep =>
        /\ last_cycle'[1].from = view_mode
        /\ last_cycle'[1].colors = len(game_render_texture_bind_groups)
        /\ last_cycle'[1].depths = len(game_depth_texture_bind_groups)
        /\ view_mode' = Successor(view_mode,
                                  len(game_render_texture_bind_groups),
                                  len(game_depth_texture_bind_groups))

---------------------------------------------------------------------------
(* C12: with c color and d depth entries, cycling from Game goes through   *)
(* Color(0..c-1) then Depth(0..d-1), each once and in increasing order,    *)
(* and is back at Game after exactly c+d+1 cycles; from the current view   *)
(* mode Game is reached within c+d+1 cycles; every cycle made moves one    *)
(* place along that ring.                                                  *)

Ring(c, d) ==
    <<Game>> \o [i \in 1..c |-> Color(i - 1)] \o [j \in 1..d |-> Depth(j - 1)]

\* The view mode after k cycles from `mode` with the caches unchanged.
RECURSIVE Cycles(_, _, _, _)
Cycles(mode, c, d, k) ==
    IF k = 0 THEN mode ELSE Cycles(cycle(mode, c, d), c, d, k - 1)

---------------------------------------------------------------------------
(* Observations of the display pass *)

\* A step in which render() ran its display pass.
DisplayStep == pc = "display" /\ pc' # "display"

\* The video pointer the display pass of this step loaded.
Shown == raw_pass'.video_buffer[1]

ColorCached(a) == a \in DOMAIN game_render_texture_bind_groups

\* The cached color addresses that lie 640 below a.
Below640(a) ==
    {k \in DOMAIN game_render_texture_bind_groups :
        AddU32(k, U32Of(0, 640)) = [value |-> a, overflow |-> FALSE]}

\* The display pass of this step did nothing of the raw decoder.
NoRawDecode ==
    /\ UNCHANGED <<rawVars, next_texture>>
    /\ ~raw_pass'.allocated
    /\ ~raw_pass'.locked
    /\ ~raw_pass'.words_read
    /\ ~raw_pass'.wrote

ColorPipeline == "game_render_color_texture_pipeline"

---------------------------------------------------------------------------
(* C13: in Game view with a nonzero video pointer V the display pass shows *)
(* the color entry cached at V when there is one, otherwise the entry      *)
(* cached at V-640 when there is one, in both cases without any raw        *)
(* decode, and only otherwise turns to the raw decoder.                    *)

C13_ResolutionStep ==
    (DisplayStep /\ view_mode.kind = "Game" /\ Shown # U32Of(0, 0)) =>
        IF ColorCached(Shown)
        THEN /\ last_display' =
                   Drawn(ColorPipeline, game_render_texture_bind_groups[Shown])
             /\ NoRawDecode
        ELSE IF Below640(Shown) # {}
        THEN /\ \A k \in Below640(Shown) :
                   last_display' =
                      Drawn(ColorPipeline, game_render_texture_bind_groups[k])
             /\ NoRawDecode
        ELSE \/ pc' = "panicked"
             \/ last_display' = Skipped
             \/ /\ raw_render_texture_bind_group' # None
                /\ last_display' =
                      Drawn(ColorPipeline, raw_render_texture_bind_group'[1])

C13_VideoPointerResolution == [][C13_ResolutionStep]_vars

\* The pointer 0x1280 was shown from the target cached at 0x1000, and no
\* staging texture exists.
C13_Witness ==
    /\ pc = "idle"
    /\ raw_pass.video_buffer = Some(Addr1280)
    /\ ~ColorCached(Addr1280)
    /\ ColorCached(Addr1000)
    /\ last_display =
          Drawn(ColorPipeline, game_render_texture_bind_groups[Addr1000])
    /\ raw_render_texture = None

---------------------------------------------------------------------------
(* C14: the staging texture is created or written, and shared memory is    *)
(* locked or read, only by a display pass in Game view whose video pointer *)
(* is nonzero and matches no cached color address, neither exactly nor     *)
(* 640 below; no other step touches them.                                  *)

C14_RawStep ==
    /\ ~DisplayStep => UNCHANGED <<rawVars, raw_pass>>
    /\ (DisplayStep /\ ~NoRawDecode) =>
          /\ view_mode.kind = "Game"
          /\ raw_pass'.video_buffer # None
          /\ Shown # U32Of(0, 0)
          /\ ~ColorCached(Shown)
          /\ Below640(Shown) = {}

C14_RawOnlyWhenUnmatched == [][C14_RawStep]_vars

\* A display pass allocated the staging texture, read memory and wrote it.
C14_Witness ==
    /\ raw_pass.allocated
    /\ raw_pass.words_read
    /\ raw_pass.wrote
    /\ raw_texture_data # <<>>

---------------------------------------------------------------------------
(* C15: a raw decode that meets a format code other than 2 or 3 leaves the *)
(* staging texture as the previous decode wrote it and draws nothing.      *)

C15_UnsupportedStep ==
    (/\ DisplayStep
     /\ raw_pass'.vi_format # None
     /\ raw_pass'.vi_format[1] \notin {2, 3}) =>
        /\ raw_texture_data' = raw_texture_data
        /\ last_display' = Skipped

C15_UnsupportedFormatKeepsTexture == [][C15_UnsupportedStep]_vars

---------------------------------------------------------------------------
(* C16: the raw path takes 240 lines for a width of 320 and 480 for 640;   *)
(* for any other width the pass returns without a fault before the staging *)
(* texture is created, memory is read, the texture is written or anything  *)
(* is drawn.                                                               *)

C16_WidthStep ==
    (DisplayStep /\ raw_pass'.vi_width # None) =>
        LET width == raw_pass'.vi_width[1]
            lines == IF width = 320 THEN 240 ELSE 480
        IN  IF width \notin {320, 640}
            THEN /\ NoRawDecode
                 /\ last_display' = Skipped
                 /\ pc' = "idle"
            ELSE /\ raw_pass'.allocated =>
                       /\ raw_render_texture'[1].width = width
                       /\ raw_render_texture'[1].height = lines
                 /\ raw_pass'.wrote =>
                       /\ Last(raw_texture_data').width = width
                       /\ Last(raw_texture_data').height = lines

C16_HeightFromWidth == [][C16_WidthStep]_vars

\* A frame with an unknown width was skipped after an earlier frame had
\* created the staging texture.
C16_Witness ==
    /\ pc = "idle"
    /\ raw_pass.vi_width = Some(0)
    /\ last_display = Skipped
    /\ raw_render_texture # None

---------------------------------------------------------------------------
(* C17: with format 2, pixel i of the decoded image comes from memory word *)
(* (V>>2) + floor(i/2), its upper half for even i and its lower half for   *)
(* odd i; with r = bits 15..11, g = bits 10..6, b = bits 5..1 and a =      *)
(* bit 0 of that half the bytes are r*8, g*8, b*8 and 0 when a = 1, else   *)
(* 255.  The word 0xFFFF_0000 at an even pixel gives 248, 248, 248, 0.     *)

Bit(p, n) == (p \div (2^n)) % 2

\* The number whose binary digits are bits hi..lo of p.
Bits(p, hi, lo) == (p % (2^(hi + 1))) \div (2^lo)

ExpectedBytes(word, i) ==
    LET half == IF i % 2 = 0 THEN word[1] ELSE word[2]
    IN  <<(Bits(half, 15, 11) * 8) % 256, (Bits(half, 10, 6) * 8) % 256,
          (Bits(half, 5, 1) * 8) % 256, IF Bit(half, 0) = 1 THEN 0 ELSE 255>>

SampleWords ==
    {U32Of(65535, 0), U32Of(0, 65535), U32Of(33825, 1), U32Of(4660, 22136),
     U32Of(63488, 1984), U32Of(62, 65534)}

SamplePixels == {0, 1, 2, 3, 4, 5, 319, 320, 76798, 76799}

C17_DecodeOfWords ==
    /\ \A word \in SampleWords : \A i \in 0..1 :
          decode_rgba5551(word, i) = ExpectedBytes(word, i)
    /\ decode_rgba5551(U32Of(65535, 0), 0) = <<248, 248, 248, 0>>

C17_DecodeStep ==
    (DisplayStep /\ raw_pass'.wrote /\ raw_pass'.vi_format = Some(2)) =>
        LET width == raw_pass'.vi_width[1]
            first == ((Shown[1] * W16) + Shown[2]) \div 4
            mem == Last(raw_texture_data').mem
        IN  \A i \in SamplePixels :
               texel(raw_texture_data', i % width, i \div width) =
                  Some(ExpectedBytes(word_at(mem, first + (i \div 2)), i))

C17_Format2Decode == []C17_DecodeOfWords /\ [][C17_DecodeStep]_vars

\* A format 2 decode from 0x1000, where memory holds 0xFFFF_0000, wrote
\* 248, 248, 248, 0 as the first texel and an opaque black second texel.
C17_Witness ==
    /\ raw_pass.wrote
    /\ raw_pass.vi_format = Some(2)
    /\ raw_pass.video_buffer = Some(Addr1000)
    /\ texel(raw_texture_data, 0, 0) = Some(<<248, 248, 248, 0>>)
    /\ texel(raw_texture_data, 1, 0) = Some(<<0, 0, 0, 255>>)

---------------------------------------------------------------------------
(* C18: a slot of the matrix table is 256 bytes, and a draw entry whose    *)
(* matrix_index is below 1024 binds the table at the dynamic offset        *)
(* matrix_index * 256.                                                     *)

\* i * 256 as a u32
TimesStride(i) == U32Of((i * 256) \div W16, (i * 256) % W16)

\* A step in which the RenderPass arm submitted its pass.
PassStep ==
    /\ PopStep
    /\ Head(queue).op = "RenderPass"
    /\ events' # events

C18_OffsetStep ==
    PassStep =>
        LET draw_list == Head(queue).rp.draw_list
        IN  \A n \in 1..Len(draw_list) :
               LET m == draw_list[n].matrix_index
               IN  (m[1] = 0 /\ m[2] < 1024) =>
                      Last(events').draws[n].dynamic_offset = TimesStride(m[2])

C18_OffsetIsIndexTimesStride ==
    [](MvpPackedSize = 256) /\ [][C18_OffsetStep]_vars

\* A pass drew with the last slot of the table, at byte 1023 * 256.
C18_Witness ==
    /\ events # <<>>
    /\ Last(events).t = "pass"
    /\ Last(applied) = RenderPass(PassAt(U32Of(0, 1023)))
    /\ Last(events).draws[1].dynamic_offset = U32Of(3, 65280)

---------------------------------------------------------------------------
(* C19: after a MatrixData command with N matrices, for every i < N the    *)
(* 64 bytes of the matrix table that start at byte i * 256 are the i-th    *)
(* matrix of the command.                                                  *)

\* The MatrixBytes bytes of the table that start at byte `at`.
BlockAt(buffer, at) == cast_slice(buffer)[(at \div MatrixBytes) + 1]

C19_RoundTripStep ==
    (PopStep /\ Head(queue).op = "MatrixData") =>
        LET v == Head(queue).v
        IN  /\ Len(cast_slice(mvp_buffer')) * MatrixBytes >= Len(v) * 256
            /\ \A i \in 0..(Len(v) - 1) :
                  BlockAt(mvp_buffer', i * 256) = [matrix |-> v[i + 1]]

C19_MatrixRoundTrip == [][C19_RoundTripStep]_vars

\* One matrix was written over a table that held three: slot 0 is the new
\* matrix, slots 1 and 2 are as they were.
C19_Witness ==
    /\ Len(applied) = 3
    /\ applied[2] = MatrixData(<<"m3", "m2", "m1">>)
    /\ applied[3] = MatrixData(<<"m1">>)
    /\ BlockAt(mvp_buffer, 0) = [matrix |-> "m1"]
    /\ BlockAt(mvp_buffer, 256) = [matrix |-> "m2"]
    /\ BlockAt(mvp_buffer, 512) = [matrix |-> "m1"]

---------------------------------------------------------------------------
(* C20: every draw entry of an executed RenderPass has a matrix_index      *)
(* below 1024, so that the 256 bytes it binds lie inside the table.        *)

C20_MatrixSlotInTable ==
    \A i \in 1..Len(applied) :
        (/\ applied[i].op = "RenderPass"
         /\ DefinedBefore(ColorKey(applied[i].rp), i)) =>
            \A n \in 1..Len(applied[i].rp.draw_list) :
                LET m == applied[i].rp.draw_list[n].matrix_index
                IN  m[1] = 0 /\ m[2] < MatrixSlots

---------------------------------------------------------------------------
(* C21: every draw of an executed RenderPass covers populated indices      *)
(* only: start_index + num_indices does not exceed 32 bits and is at most  *)
(* the number of indices the most recent IndexData command wrote.          *)

\* The number of indices written by the most recent IndexData command of
\* s, 0 when s has none.
RECURSIVE Populated(_)
Populated(s) ==
    IF s = <<>> THEN 0
    ELSE IF Last(s).op = "IndexData" THEN Len(Last(s).v)
    ELSE Populated(Front(s))

C21_IndexStep ==
    PassStep =>
        \A n \in 1..Len(Head(queue).rp.draw_list) :
            LET dl == Head(queue).rp.draw_list[n]
                sum == AddU32(dl.start_index, dl.num_indices)
            IN  /\ ~sum.overflow
                /\ sum.value[1] = 0
                /\ sum.value[2] <= Populated(applied)

C21_DrawsWithinIndexData == [][C21_IndexStep]_vars

---------------------------------------------------------------------------
(* C22: for a fixed index i the address shown for Color(i), and for        *)
(* Depth(i), is the same at every render of a session: the entry at a      *)
(* position of the iteration stays there when other addresses are          *)
(* inserted, and a diagnostic view shows the entry at its index.           *)

\* The keys of a map in an order, each once.
Enumerates(order, m) ==
    /\ Len(order) = len(m)
    /\ \A a \in DOMAIN m : \E i \in 1..Len(order) : order[i] = a

C22_OrderStep ==
    /\ Enumerates(color_iter', game_render_texture_bind_groups')
    /\ Enumerates(depth_iter', game_depth_texture_bind_groups')
    /\ \A i \in 1..Len(color_iter) : color_iter'[i] = color_iter[i]
    /\ \A i \in 1..Len(depth_iter) : depth_iter'[i] = depth_iter[i]
    /\ (DisplayStep /\ view_mode.kind = "Color"
          /\ view_mode.index < Len(color_iter)) =>
          last_display' =
             Drawn("game_render_color_texture_pipeline",
                   game_render_texture_bind_groups[color_iter[view_mode.index + 1]])
    /\ (DisplayStep /\ view_mode.kind = "Depth"
          /\ view_mode.index < Len(depth_iter)) =>
          last_display' =
             Drawn("game_render_depth_texture_pipeline",
                   game_depth_texture_bind_groups[depth_iter[view_mode.index + 1]])

C22_ViewOrderStable == [][C22_OrderStep]_vars

---------------------------------------------------------------------------
(* C23: the render thread holds the read lock of shared memory from before *)
(* the first word read of a raw decode pass to after its last word read;   *)
(* the producer writes no memory inside a pass, and all pixels of a        *)
(* decoded frame come from one state of memory.                            *)

Decoding == pc = "decode"

C23_LockState ==
    /\ Decoding => decode.guard
    /\ Cardinality(decode.mems) <= 1
    /\ decode.mems # {} => decode.chunks >= 1

C23_LockStep ==
    \* no write while the guard is out, none between two steps of a pass
    /\ decode.guard => comms_rdram' = comms_rdram
    /\ (Decoding /\ pc' = "decode") => comms_rdram' = comms_rdram
    \* every read is made under the guard, which is still out after it
    /\ decode'.chunks # decode.chunks /\ decode'.chunks > 0 =>
          /\ decode.guard
          /\ decode'.guard
          /\ decode'.mems = {comms_rdram[1]}
    \* the guard is taken before the first read and dropped by the step that
    \* ends the pass
    /\ (~decode.guard /\ decode'.guard) => decode'.chunks = 0
    /\ (decode.guard /\ ~decode'.guard) => Decoding /\ pc' # "decode"
    \* the image uploaded is decoded from the memory the reads found
    /\ (Decoding /\ pc' = "idle" /\ decode.mems # {}) =>
          /\ raw_pass'.wrote
          /\ decode.mems = {Last(raw_texture_data').mem}

C23_DecodeUnderReadLock == []C23_LockState /\ [][C23_LockStep]_vars

\* A pass read its frame in three stretches and uploaded it, all from one
\* memory, and the producer has since rewritten memory.
C23_Witness ==
    /\ pc = "idle"
    /\ raw_pass.wrote
    /\ decode.chunks = 3
    /\ decode.mems = {Last(raw_texture_data).mem}
    /\ comms_rdram # None
    /\ comms_rdram[1] \notin decode.mems

---------------------------------------------------------------------------
(* C24: an executed RenderPass uses the no-depth pipeline, with no depth   *)
(* attachment, exactly when the depth cache has no entry at the address    *)
(* the pass resolves (depth_buffer, or 0xFFFF_FFFF when it names none);    *)
(* otherwise it uses the depth-testing pipeline with that entry attached.  *)

\* `depth_buffer`, or 0xFFFF_FFFF when the pass names none.
DepthKey(rp) ==
    IF rp.depth_buffer = None THEN U32Of(65535, 65535) ELSE rp.depth_buffer[1]

C24_DepthStep ==
    PassStep =>
        LET rp == Head(queue).rp
            e == Last(events')
        IN  IF DepthKey(rp) \in DOMAIN game_depth_textures
            THEN /\ e.pipeline = "game_pipeline"
                 /\ e.depth_stencil_attachment # None
                 /\ e.depth_stencil_attachment[1].view =
                       game_depth_textures[DepthKey(rp)].id
            ELSE /\ e.pipeline = "game_pipeline_no_depth"
                 /\ e.depth_stencil_attachment = None

C24_DepthByCacheEntry == [][C24_DepthStep]_vars

\* A pass that names no depth buffer was executed with the depth-testing
\* pipeline and the depth target cached at 0xFFFF_FFFF attached.
C24_Witness ==
    /\ applied # <<>>
    /\ Last(applied) = RenderPass(PassColor)
    /\ events # <<>>
    /\ Last(events).t = "pass"
    /\ Last(events).pipeline = "game_pipeline"
    /\ SentinelAddress \in DOMAIN game_depth_textures
    /\ Last(events).depth_stencil_attachment =
          Some([view |-> game_depth_textures[SentinelAddress].id,
                load |-> [op |-> "Load"]])

\* The claim as first stated: the pipeline follows whether the pass names a
\* depth buffer.
C24_RequestStep ==
    PassStep =>
        LET rp == Head(queue).rp
            e == Last(events')
        IN  IF rp.depth_buffer = None
            THEN /\ e.pipeline = "game_pipeline_no_depth"
                 /\ e.depth_stencil_attachment = None
            ELSE /\ e.pipeline = "game_pipeline"
                 /\ e.depth_stencil_attachment # None
                 /\ rp.depth_buffer[1] \in DOMAIN game_depth_textures
                 /\ e.depth_stencil_attachment[1].view =
                       game_depth_textures[rp.depth_buffer[1]].id

C24_DepthByRequest == [][C24_RequestStep]_vars

---------------------------------------------------------------------------
(* C25: an executed RenderPass issues one draw per DrawEntry, in draw_list *)
(* order; the draw of an entry has the matrix table bound at               *)
(* (matrix_index * 256) mod 2^32 and covers the indices from start_index   *)
(* to (start_index + num_indices) mod 2^32; the color target, the          *)
(* pipeline and the vertex, index and texture bindings are those set       *)
(* before the first draw, the same for every entry.                        *)

\* What is bound in a render pass after the commands cs.
NoBindings ==
    [pipeline |-> None, group0 |-> None, group1 |-> None, vertex |-> None,
     index |-> None]

RECURSIVE Bound(_)
Bound(cs) ==
    IF cs = <<>> THEN NoBindings
    ELSE LET b == Bound(Front(cs))
             c == Last(cs)
         IN  CASE c.cmd = "set_pipeline" ->
                    [b EXCEPT !.pipeline = Some(c.pipeline)]
               [] c.cmd = "set_bind_group" /\ c.index = 0 ->
                    [b EXCEPT !.group0 = Some(<<c.bind_group, c.offsets>>)]
               [] c.cmd = "set_bind_group" /\ c.index = 1 ->
                    [b EXCEPT !.group1 = Some(<<c.bind_group, c.offsets>>)]
               [] c.cmd = "set_vertex_buffer" ->
                    [b EXCEPT !.vertex = Some(c.buffer)]
               [] c.cmd = "set_index_buffer" ->
                    [b EXCEPT !.index = Some(<<c.buffer, c.format>>)]
               [] OTHER -> b

\* The positions of the draws among the commands cs.
DrawPositions(cs) ==
    SelectSeq([k \in 1..Len(cs) |-> k], LAMBDA k : cs[k].cmd = "draw_indexed")

\* (m * 256) mod 2^32 and (a + b) mod 2^32 on <<hi, lo>> pairs
Times256Mod32(m) == <<((m[1] % 256) * 256) + (m[2] \div 256), (m[2] % 256) * 256>>
SumMod32(a, b) ==
    <<(a[1] + b[1] + ((a[2] + b[2]) \div W16)) % W16, (a[2] + b[2]) % W16>>

C25_DrawStep ==
    PassStep =>
        LET rp == Head(queue).rp
            e == Last(events')
            cs == e.commands
            at == DrawPositions(cs)
        IN  /\ Len(at) = Len(rp.draw_list)
            /\ e.color_attachment.view = game_render_textures[ColorKey(rp)].id
            /\ \A n \in 1..Len(at) :
                  LET dl == rp.draw_list[n]
                      b == Bound(SubSeq(cs, 1, at[n] - 1))
                  IN  /\ b.group1 =
                            Some(<<"mvp_bind_group",
                                   <<Times256Mod32(dl.matrix_index)>>>>)
                      /\ cs[at[n]].first = dl.start_index
                      /\ cs[at[n]].last =
                            SumMod32(dl.start_index, dl.num_indices)
                      /\ b.pipeline = Some(e.pipeline)
                      /\ b.group0 = Some(<<"diffuse_bind_group", <<>>>>)
                      /\ b.vertex = Some("vertex_buffer")
                      /\ b.index = Some(<<"index_buffer", "Uint16">>)

ExactEntry(dl) ==
    /\ dl.matrix_index[1] < 256
    /\ dl.start_index[1] + dl.num_indices[1]
         + ((dl.start_index[2] + dl.num_indices[2]) \div W16) < W16

C25_ExactStep ==
    /\ C25_DrawStep
    /\ PassStep =>
          \A n \in 1..Len(Head(queue).rp.draw_list) :
              ExactEntry(Head(queue).rp.draw_list[n])

---------------------------------------------------------------------------
(* C26: an executed RenderPass clears its color target to clear_color      *)
(* exactly when clear_color is present, and otherwise draws over what the  *)
(* target held; it clears the attached depth target to 1.0 exactly when    *)
(* clear_depth is set, and otherwise draws over what that target held; a   *)
(* pass without a depth attachment changes no depth target, whatever       *)
(* clear_depth is.                                                         *)

\* What a texture holds: the value it was last cleared to, None when it
\* never was, and the draws made on it since.
Untouched == [base |-> None, draws |-> <<>>]

\* The effect of a pass on the target of one of its attachments.
AfterPass(held, load, draws) ==
    IF load.op = "Clear" THEN [base |-> Some(load.value), draws |-> draws]
    ELSE [base |-> held.base, draws |-> held.draws \o draws]

\* What the texture `id` holds as a color target, and as a depth target,
\* after the submissions evs.
RECURSIVE ColorContents(_, _)
ColorContents(evs, id) ==
    IF evs = <<>> THEN Untouched
    ELSE LET e == Last(evs)
             held == ColorContents(Front(evs), id)
         IN  IF e.t = "pass" /\ e.color_attachment.view = id
             THEN AfterPass(held, e.color_attachment.load, e.draws)
             ELSE held

RECURSIVE DepthContents(_, _)
DepthContents(evs, id) ==
    IF evs = <<>> THEN Untouched
    ELSE LET e == Last(evs)
             held == DepthContents(Front(evs), id)
         IN  IF /\ e.t = "pass"
                /\ e.depth_stencil_attachment # None
                /\ e.depth_stencil_attachment[1].view = id
             THEN AfterPass(held, e.depth_stencil_attachment[1].load, e.draws)
             ELSE held

Textures(cache) == {cache[a].id : a \in DOMAIN cache}

C26_ClearStep ==
    PassStep =>
        LET rp == Head(queue).rp
            draws == Last(events').draws
            target == game_render_textures[ColorKey(rp)].id
            attached ==
                IF DepthKey(rp) \in DOMAIN game_depth_textures
                THEN {game_depth_textures[DepthKey(rp)].id} ELSE {}
        IN  /\ ColorContents(events', target) =
                  IF rp.clear_color # None
                  THEN [base |-> rp.clear_color, draws |-> draws]
                  ELSE [base |-> ColorContents(events, target).base,
                        draws |-> ColorContents(events, target).draws \o draws]
            /\ \A id \in Textures(game_render_textures) \ {target} :
                  ColorContents(events', id) = ColorContents(events, id)
            /\ \A id \in attached :
                  DepthContents(events', id) =
                     IF rp.clear_depth
                     THEN [base |-> Some("1.0"), draws |-> draws]
                     ELSE [base |-> DepthContents(events, id).base,
                           draws |-> DepthContents(events, id).draws \o draws]
            /\ \A id \in Textures(game_depth_textures) \ attached :
                  DepthContents(events', id) = DepthContents(events, id)

C26_ClearPolicy == [][C26_ClearStep]_vars

\* A pass cleared the color target at 0x1000 and a second pass, which sets
\* no clear color, drew over what the first had left.
C26_Witness ==
    /\ Len(events) = 2
    /\ Len(applied) >= 2
    /\ Last(applied) = RenderPass(PassKeep)
    /\ events[1].color_attachment.load = [op |-> "Clear", value |-> <<0, 0, 0, 1>>]
    /\ events[2].color_attachment.load = [op |-> "Load"]
    /\ ColorContents(events, game_render_textures[Addr1000].id) =
          [base |-> Some(<<0, 0, 0, 1>>),
           draws |-> events[1].draws \o events[2].draws]

---------------------------------------------------------------------------
(* C27: every dispatcher tick terminates, whether the producer ends its    *)
(* commands with a Sync or just stops pushing: render_game returns after   *)
(* a Sync or on an empty queue, or the thread panics in an arm; and at     *)
(* no point inside render_game does the next step need the producer.       *)

InLoop == pc = "cmd_loop"

\* render_game is left only from a try_pop that found the queue empty, from
\* a Sync, or by a panic.
C27_ExitStep ==
    (InLoop /\ pc' # "cmd_loop") =>
        \/ pc' = "display" /\ queue = <<>>
        \/ pc' = "display" /\ queue # <<>> /\ IsSync(Head(queue))
        \/ pc' = "panicked" /\ queue # <<>>

C27_TickTerminates ==
    /\ [](InLoop => ENABLED <<LoopIteration>>_vars)
    /\ [][C27_ExitStep]_vars
    /\ InLoop ~> (pc \in {"display", "panicked"})

\* A tick that the producer never ended with a Sync returned on the empty
\* queue after two commands.
C27_Witness ==
    /\ pc = "display"
    /\ InTick
    /\ Len(TickPopped) = 2
    /\ \A i \in 1..Len(enqueued) : ~IsSync(enqueued[i])
    /\ queue = <<>>
    /\ Len(enqueued) = MaxCmds

---------------------------------------------------------------------------
(* C28: the staging texture of the raw decoder is created at most once, by *)
(* the first raw decode that gets past the width check; every later raw    *)
(* decode finds it and uses it.                                            *)

\* The display pass of this step got past the width check of the raw path.
PastWidthCheck == DisplayStep /\ raw_pass'.vi_format # None

C28_AllocStep ==
    /\ raw_render_texture # None =>
          UNCHANGED <<raw_render_texture, raw_render_texture_bind_group>>
    /\ raw_render_texture_bind_group' # raw_render_texture_bind_group =>
          raw_render_texture = None
    /\ raw_render_texture' # raw_render_texture =>
          /\ PastWidthCheck
          /\ raw_pass'.allocated
          /\ next_texture' = next_texture + 1
    /\ PastWidthCheck =>
          /\ raw_render_texture' # None
          /\ raw_render_texture_bind_group' # None
          /\ raw_render_texture_bind_group'[1].texture = raw_render_texture'[1].id
          /\ raw_pass'.allocated <=> raw_render_texture = None
          /\ last_display'.kind = "drawn" /\ pc' = "idle" =>
                last_display'.bind_group = raw_render_texture_bind_group'[1]
    /\ (DisplayStep /\ ~PastWidthCheck) =>
          UNCHANGED <<raw_render_texture, raw_render_texture_bind_group>>

C28_StagingTextureOnce == [][C28_AllocStep]_vars

\* A raw decode wrote into the staging texture that an earlier pass had
\* created, and the pass drew it.
C28_Witness ==
    /\ raw_pass.wrote
    /\ ~raw_pass.allocated
    /\ raw_render_texture # None
    /\ Len(raw_texture_data) >= 1
    /\ last_display = Drawn(ColorPipeline, raw_render_texture_bind_group[1])

---------------------------------------------------------------------------
(* C29: whenever the raw decoder writes pixel data into the staging        *)
(* texture, the region written is as wide and as high as the texture was   *)
(* created, whatever widths the display reports from frame to frame.       *)

C29_WriteStep ==
    (DisplayStep /\ raw_pass'.wrote) =>
        /\ Last(raw_texture_data').width = raw_render_texture'[1].width
        /\ Last(raw_texture_data').height = raw_render_texture'[1].height

C29_WriteFillsTexture == [][C29_WriteStep]_vars

---------------------------------------------------------------------------
(* C30: with format 3, pixel i of the decoded image is memory word         *)
(* (V>>2) + i, one word per pixel, as its four bytes from the most         *)
(* significant to the least, the least significant replaced by 255.        *)

\* The four bytes of a word, most significant first, the last one 255.
ExpectedBytes32(word) ==
    <<Bits(word[1], 15, 8), Bits(word[1], 7, 0), Bits(word[2], 15, 8), 255>>

C30_DecodeOfWords ==
    /\ \A word \in SampleWords : decode_rgba8888(word) = ExpectedBytes32(word)
    /\ decode_rgba8888(U32Of(4660, 22136)) = <<18, 52, 86, 255>>

C30_DecodeStep ==
    (DisplayStep /\ raw_pass'.wrote /\ raw_pass'.vi_format = Some(3)) =>
        LET width == raw_pass'.vi_width[1]
            first == ((Shown[1] * W16) + Shown[2]) \div 4
            mem == Last(raw_texture_data').mem
        IN  \A i \in SamplePixels :
               texel(raw_texture_data', i % width, i \div width) =
                  Some(ExpectedBytes32(word_at(mem, first + i)))

C30_Format3Decode == []C30_DecodeOfWords /\ [][C30_DecodeStep]_vars

\* A format 3 decode from 0x1000, where memory holds 0xFFFF_0000 and then
\* 0x8421_0001, wrote 255, 255, 0, 255 and 132, 33, 0, 255 as its first two
\* texels.
C30_Witness ==
    /\ raw_pass.wrote
    /\ raw_pass.vi_format = Some(3)
    /\ raw_pass.video_buffer = Some(Addr1000)
    /\ texel(raw_texture_data, 0, 0) = Some(<<255, 255, 0, 255>>)
    /\ texel(raw_texture_data, 1, 0) = Some(<<132, 33, 0, 255>>)


---------------------------------------------------------------------------
(* C31: a raw decode pass reads inside shared memory only: the highest     *)
(* word index its pixel loop asks for, (V >> 2) + (width*height - 1) / 2   *)
(* for format 2 and (V >> 2) + width*height - 1 for format 3, is below the *)
(* length of the memory (an index at or past the length is the fault of    *)
(* `rdram[..]`).                                                           *)

C31_ReadStep ==
    (DisplayStep /\ raw_pass'.words_read) =>
        LET width == raw_pass'.vi_width[1]
        IN  LastWordRead(StartOf(Shown), width, HeightOf(width)[1],
                         raw_pass'.vi_format[1]) < comms_rdram[1].len

C31_ReadsWithinMemory == [][C31_ReadStep]_vars

---------------------------------------------------------------------------
(* C32: in Game view a nonzero video pointer below 640 that is not a       *)
(* cached color address gets past the lookup of V - 640: the lookup does   *)
(* not fault and shows no cached entry, so the pass goes on to load the    *)
(* width for a raw decode or a skipped frame.                              *)

C32_LowPointerStep ==
    (/\ DisplayStep
     /\ view_mode.kind = "Game"
     /\ Shown # U32Of(0, 0)
     /\ Shown[1] = 0
     /\ Shown[2] < 640
     /\ ~ColorCached(Shown)) =>
        raw_pass'.vi_width # None

C32_LowPointerFallsThrough == [][C32_LowPointerStep]_vars

---------------------------------------------------------------------------
(* C33: in every reachable state the view mode is Game, or Color(i) with i *)
(* below the number of cached color entries, or Depth(j) with j below the  *)
(* number of cached depth entries; a display pass in a Color or Depth view *)
(* therefore never takes the out-of-range return: it draws the entry with  *)
(* the pipeline of its kind.                                               *)

C33_ModeState ==
    ValidMode(view_mode, len(game_render_texture_bind_groups),
              len(game_depth_texture_bind_groups))

C33_ReturnStep ==
    (DisplayStep /\ view_mode.kind # "Game") =>
        /\ last_display'.kind = "drawn"
        /\ last_display'.pipeline =
              IF view_mode.kind = "Color"
              THEN ColorPipeline
              ELSE "game_render_depth_texture_pipeline"

C33_ViewIndexInRange == []C33_ModeState /\ [][C33_ReturnStep]_vars

\* With two color targets cached, the view was cycled to Color(1), the last
\* index, and a display pass has drawn it.
C33_Witness ==
    /\ pc = "idle"
    /\ view_mode = Color(1)
    /\ len(game_render_texture_bind_groups) = 2
    /\ raw_pass = NoRawPass(None)
    /\ last_display.kind = "drawn"
    /\ last_display.bind_group =
          game_render_texture_bind_groups[color_iter[2]]


---------------------------------------------------------------------------
(* C34: VertexData, IndexData and MatrixData with n elements overwrite     *)
(* elements [0, n) of their buffer and nothing else: every element of a    *)
(* buffer is the one the latest command of its kind that reached its       *)
(* position carried, whatever Syncs came in between, and a RenderPass      *)
(* changes no buffer and draws with the matrix so left at its slot.        *)

\* Element k (from 1) of the latest command of kind op in s that carries at
\* least k elements; None when no command of the kind reached position k.
RECURSIVE LatestElement(_, _, _)
LatestElement(s, op, k) ==
    IF s = <<>> THEN None
    ELSE IF Last(s).op = op /\ Len(Last(s).v) >= k THEN Some(Last(s).v[k])
    ELSE LatestElement(Front(s), op, k)

\* The number of elements of the longest command of kind op in s.
RECURSIVE Extent(_, _)
Extent(s, op) ==
    IF s = <<>> THEN 0
    ELSE LET rest == Extent(Front(s), op)
             here == IF Last(s).op = op THEN Len(Last(s).v) ELSE 0
         IN  IF here > rest THEN here ELSE rest

C34_BufferState ==
    /\ Len(vertex_buffer) = Extent(applied, "VertexData")
    /\ Len(index_buffer) = Extent(applied, "IndexData")
    /\ Len(mvp_buffer) = Extent(applied, "MatrixData")
    /\ \A k \in 1..Len(vertex_buffer) :
          vertex_buffer[k] = LatestElement(applied, "VertexData", k)[1]
    /\ \A k \in 1..Len(index_buffer) :
          index_buffer[k] = LatestElement(applied, "IndexData", k)[1]
    /\ \A k \in 1..Len(mvp_buffer) :
          mvp_buffer[k].mvp_matrix = LatestElement(applied, "MatrixData", k)[1]

C34_UseStep ==
    PassStep =>
        /\ UNCHANGED bufferVars
        /\ \A n \in 1..Len(Head(queue).rp.draw_list) :
              LET slot == Head(queue).rp.draw_list[n].matrix_index[2]
                  at == Last(events').draws[n].dynamic_offset
              IN  slot < Len(mvp_buffer) =>
                     BlockAt(mvp_buffer', (at[1] * W16) + at[2]) =
                        [matrix |->
                            LatestElement(applied, "MatrixData", slot + 1)[1]]

C34_WritesKeepTail == []C34_BufferState /\ [][C34_UseStep]_vars

\* Three matrices, a Sync, one matrix, then a pass with slot 1: it drew at
\* byte 256, where the table still holds the second matrix of the frame
\* before.
C34_Witness ==
    /\ Len(applied) = 5
    /\ applied[2] = MatrixData(<<"m3", "m2", "m1">>)
    /\ IsSync(applied[3])
    /\ applied[4] = MatrixData(<<"m1">>)
    /\ applied[5] = RenderPass(PassAt(U32Of(0, 1)))
    /\ Last(events).t = "pass"
    /\ Last(events).draws[1].dynamic_offset = U32Of(0, 256)
    /\ BlockAt(mvp_buffer, 0) = [matrix |-> "m1"]
    /\ BlockAt(mvp_buffer, 256) = [matrix |-> "m2"]

====
